---- MODULE Spec2Model ----
(***************************************************************************)
(* Pipeline arena of poisson_corrode (src/pipeline.rs): two slot tables    *)
(* (render, compute) with a dedup cache each, a path registry that fans a  *)
(* file-change event out to every pipeline built from the file, and the    *)
(* event handler that drives the reload (src/app.rs handle_events).        *)
(* Around it, the application runner (crates/app/src/lib.rs): the fixed    *)
(* timestep, the recording keys of AppState and the recorder of App, the   *)
(* vertex layout builder and the mesh and material pools.                  *)
(***************************************************************************)
EXTENDS Integers, Sequences, FiniteSets, TLC

\* ------------------------------------------------------------------ bounds
\* Total number of successful compile calls (each one pushes one entry on a
\* path_mapping list, so this bounds the registry).
MaxCalls == 2
\* Highest content version a shader file reaches.
MaxVer == 3
\* Total number of edits made to the shader files.
MaxEdits == 2
\* Total number of AppState::update calls of the key-and-resize runs.
MaxUpdates == 4
\* Number of new_events calls of the timestep runs.
MaxFrames == 4
\* Longest format list handed to from_vertex_formats.
MaxFormats == 3
\* Number of meshes and materials a scene adds to the pools.
MaxAdds == 4

\* ------------------------------------------------------------- value sets
Paths == {"geometry.wgsl", "update.wgsl"}

\* Option<T>: None, or Some(x) holding one value.
None == <<>>
Some(x) == <<x>>

\* RenderPipelineDescriptor values: equal in every field but the label.
RenderDescs ==
    { [label |-> Some("Depth Prepass"), entry_point |-> "vs_main"],
      [label |-> Some("Shading"), entry_point |-> "vs_main"] }

\* ComputePipelineDescriptor values: equal in every field but the entry point.
ComputeDescs ==
    { [label |-> Some("Compute Pipeline"), entry_point |-> "cs_main"],
      [label |-> Some("Compute Pipeline"), entry_point |-> "cs_update"] }

AllDescs == RenderDescs \cup ComputeDescs

\* The entry points the descriptors name.
EntryPoints == {d.entry_point : d \in AllDescs}

\* What a shader file can hold: a source that defines every entry point, a
\* source that compiles but no longer defines cs_update, a source that does
\* not compile.
Contents ==
    { [valid |-> TRUE, entry_points |-> EntryPoints],
      [valid |-> TRUE, entry_points |-> EntryPoints \ {"cs_update"}],
      [valid |-> FALSE, entry_points |-> {}] }

NoDesc == [label |-> None, entry_point |-> ""]
NoModule == [path |-> "", ver |-> 0, entry_points |-> {}]
CompileError == [path |-> "CompileError", ver |-> 0, entry_points |-> {}]

EmptyMap == [x \in {} |-> x]

VARIABLES
    render,        \* RenderArena: [pipelines, descriptors, cached]
    compute,       \* ComputeArena: [pipelines, descriptors, cached]
    path_mapping,  \* path -> sequence of Either<RenderHandle, ComputeHandle>
    file_watcher,  \* set of paths handed to Watcher::watch_file
    files,         \* path -> [ver, valid, entry_points]: the sources on disk
    events,        \* changed-path events waiting in the event loop
    panicked,      \* the process has aborted on a panic
    makeCount,     \* descriptor -> calls of process() made by the compile path
    origin,        \* tagged handle -> path of the compile call that created it
    failed,        \* paths that have had a reload fail to compile
    runner,        \* the event-loop thread: the callback it is in and its locals
    last,          \* the operation the last step performed, and its result
    state,         \* AppState: [frame_count, recording]
    app,           \* App: [recorder, surface_config]
    actions,       \* the Vec<StateAction> of the last new_events call
    accumulated_time, \* AppRunner::accumulated_time
    layout,        \* a from_vertex_formats call: its arguments and its result
    mesh_pool,     \* MeshPool: the three counters and mesh_info_cpu
    material_pool, \* MaterialPool: the content of its buffer
    history        \* what the calls made so far were given and returned

arena_vars ==
    <<render, compute, path_mapping, file_watcher, files, events, panicked,
      makeCount, origin, failed, runner, last>>

app_vars ==
    <<state, app, actions, accumulated_time, layout, mesh_pool, material_pool,
      history>>

vars == <<arena_vars, app_vars>>

\* --------------------------------------------------------------- handles
\* Either::Left(RenderHandle) / Either::Right(ComputeHandle)
Left(h) == [tag |-> "Left", handle |-> h]
Right(h) == [tag |-> "Right", handle |-> h]

\* ------------------------------------------------------------ materialize
\* device.create_render_pipeline / create_compute_pipeline reject a
\* descriptor whose entry point the module does not define; process() opens
\* no error scope, so the validation error is fatal and the call unwinds.
process_panics(descriptor, module) ==
    descriptor.entry_point \notin module.entry_points

\* RenderPipelineDescriptor::process: the pipeline built from the
\* descriptor's fields and the module.
RenderPipelineDescriptor_process(descriptor, module) ==
    [kind |-> "RenderPipeline", descriptor |-> descriptor, module |-> module]

\* ComputePipelineDescriptor::process
ComputePipelineDescriptor_process(descriptor, module) ==
    [kind |-> "ComputePipeline", descriptor |-> descriptor, module |-> module]

\* ------------------------------------------------------------ RenderArena
NewArena == [pipelines |-> <<>>, descriptors |-> EmptyMap, cached |-> EmptyMap]

\* Variant: the Occupied branch is never taken (every call is a miss).
RenderArena_process_pipeline_nocache(arena, module, descriptor) ==
    LET pipeline == RenderPipelineDescriptor_process(descriptor, module)
        handle == Len(arena.pipelines) + 1
    IN [arena |-> [pipelines |-> Append(arena.pipelines, pipeline),
                   descriptors |-> (handle :> descriptor) @@ arena.descriptors,
                   cached |-> (descriptor :> handle) @@ arena.cached],
        handle |-> handle,
        processed |-> 1,
        panic |-> FALSE]

\* Variant: the Occupied branch materializes again into the cached slot.
RenderArena_process_pipeline_rebuild(arena, module, descriptor) ==
    IF descriptor \in DOMAIN arena.cached
    THEN LET handle == arena.cached[descriptor]
         IN [arena |-> [arena EXCEPT !.pipelines[handle] =
                            RenderPipelineDescriptor_process(descriptor, module)],
             handle |-> handle,
             processed |-> 1,
             panic |-> FALSE]
    ELSE LET pipeline == RenderPipelineDescriptor_process(descriptor, module)
             handle == Len(arena.pipelines) + 1
         IN [arena |-> [pipelines |-> Append(arena.pipelines, pipeline),
                        descriptors |-> (handle :> descriptor) @@ arena.descriptors,
                        cached |-> (descriptor :> handle) @@ arena.cached],
             handle |-> handle,
             processed |-> 1,
             panic |-> FALSE]

\* Variant: the cache is looked up with the label left out of the key.
RenderArena_process_pipeline_label_blind(arena, module, descriptor) ==
    IF \E d \in DOMAIN arena.cached : d.entry_point = descriptor.entry_point
    THEN [arena |-> arena,
          handle |-> arena.cached[CHOOSE d \in DOMAIN arena.cached :
                                    d.entry_point = descriptor.entry_point],
          processed |-> 0, panic |-> FALSE]
    ELSE IF process_panics(descriptor, module)
    THEN [arena |-> arena, handle |-> 0, processed |-> 1, panic |-> TRUE]
    ELSE LET pipeline == RenderPipelineDescriptor_process(descriptor, module)
             handle == Len(arena.pipelines) + 1
         IN [arena |-> [pipelines |-> Append(arena.pipelines, pipeline),
                        descriptors |-> (handle :> descriptor) @@ arena.descriptors,
                        cached |-> (descriptor :> handle) @@ arena.cached],
             handle |-> handle,
             processed |-> 1,
             panic |-> FALSE]

\* Variant: a miss stores the object and the cache entry but no descriptor.
RenderArena_process_pipeline_no_descriptor(arena, module, descriptor) ==
    IF descriptor \in DOMAIN arena.cached
    THEN [arena |-> arena, handle |-> arena.cached[descriptor],
          processed |-> 0, panic |-> FALSE]
    ELSE IF process_panics(descriptor, module)
    THEN [arena |-> arena, handle |-> 0, processed |-> 1, panic |-> TRUE]
    ELSE LET pipeline == RenderPipelineDescriptor_process(descriptor, module)
             handle == Len(arena.pipelines) + 1
         IN [arena |-> [pipelines |-> Append(arena.pipelines, pipeline),
                        descriptors |-> arena.descriptors,
                        cached |-> (descriptor :> handle) @@ arena.cached],
             handle |-> handle,
             processed |-> 1,
             panic |-> FALSE]

\* RenderArena::process_pipeline. Result: the arena after the call, the
\* handle returned, the number of process() calls made and whether the
\* call unwound on a panic of process().
RenderArena_process_pipeline(arena, module, descriptor) ==
    IF descriptor \in DOMAIN arena.cached
    THEN [arena |-> arena, handle |-> arena.cached[descriptor],
          processed |-> 0, panic |-> FALSE]
    ELSE IF process_panics(descriptor, module)
    THEN [arena |-> arena, handle |-> 0, processed |-> 1, panic |-> TRUE]
    ELSE LET pipeline == RenderPipelineDescriptor_process(descriptor, module)
             handle == Len(arena.pipelines) + 1
         IN [arena |-> [pipelines |-> Append(arena.pipelines, pipeline),
                        descriptors |-> (handle :> descriptor) @@ arena.descriptors,
                        cached |-> (descriptor :> handle) @@ arena.cached],
             handle |-> handle,
             processed |-> 1,
             panic |-> FALSE]

\* Variant: the slot keeps its old object.
RenderArena_reload_pipeline_stale(arena, module, handle) == arena

\* Variant: the new object goes into a new slot instead of the handle's.
RenderArena_reload_pipeline_insert(arena, module, handle) ==
    LET desc == arena.descriptors[handle]
    IN [arena EXCEPT !.pipelines =
            Append(@, RenderPipelineDescriptor_process(desc, module))]

\* Variant: the reload drops the slot's descriptor instead of reusing it.
RenderArena_reload_pipeline_evict(arena, module, handle) ==
    [arena EXCEPT !.descriptors = [h \in (DOMAIN @) \ {handle} |-> @[h]]]

\* RenderArena::reload_pipeline, for a process() call that returns.
RenderArena_reload_pipeline(arena, module, handle) ==
    LET desc == arena.descriptors[handle]
    IN [arena EXCEPT !.pipelines[handle] = RenderPipelineDescriptor_process(desc, module)]

\* ----------------------------------------------------------- ComputeArena
\* Variant: the Occupied branch is never taken (every call is a miss).
ComputeArena_process_pipeline_nocache(arena, module, descriptor) ==
    LET pipeline == ComputePipelineDescriptor_process(descriptor, module)
        handle == Len(arena.pipelines) + 1
    IN [arena |-> [pipelines |-> Append(arena.pipelines, pipeline),
                   descriptors |-> (handle :> descriptor) @@ arena.descriptors,
                   cached |-> (descriptor :> handle) @@ arena.cached],
        handle |-> handle,
        processed |-> 1,
        panic |-> FALSE]

\* Variant: a miss reuses the newest slot instead of allocating one.
ComputeArena_process_pipeline_reuse(arena, module, descriptor) ==
    IF descriptor \in DOMAIN arena.cached
    THEN [arena |-> arena, handle |-> arena.cached[descriptor],
          processed |-> 0, panic |-> FALSE]
    ELSE LET pipeline == ComputePipelineDescriptor_process(descriptor, module)
             handle == IF arena.pipelines = <<>> THEN 1 ELSE Len(arena.pipelines)
         IN [arena |-> [pipelines |-> IF arena.pipelines = <<>>
                                      THEN <<pipeline>>
                                      ELSE [arena.pipelines EXCEPT ![handle] = pipeline],
                        descriptors |-> (handle :> descriptor) @@ arena.descriptors,
                        cached |-> (descriptor :> handle) @@ arena.cached],
             handle |-> handle,
             processed |-> 1,
             panic |-> FALSE]

\* Variant: a miss evicts the older cache entries.
ComputeArena_process_pipeline_evicting(arena, module, descriptor) ==
    IF descriptor \in DOMAIN arena.cached
    THEN [arena |-> arena, handle |-> arena.cached[descriptor],
          processed |-> 0, panic |-> FALSE]
    ELSE IF process_panics(descriptor, module)
    THEN [arena |-> arena, handle |-> 0, processed |-> 1, panic |-> TRUE]
    ELSE LET pipeline == ComputePipelineDescriptor_process(descriptor, module)
             handle == Len(arena.pipelines) + 1
         IN [arena |-> [pipelines |-> Append(arena.pipelines, pipeline),
                        descriptors |-> (handle :> descriptor) @@ arena.descriptors,
                        cached |-> (descriptor :> handle)],
             handle |-> handle,
             processed |-> 1,
             panic |-> FALSE]

\* ComputeArena::process_pipeline
ComputeArena_process_pipeline(arena, module, descriptor) ==
    IF descriptor \in DOMAIN arena.cached
    THEN [arena |-> arena, handle |-> arena.cached[descriptor],
          processed |-> 0, panic |-> FALSE]
    ELSE IF process_panics(descriptor, module)
    THEN [arena |-> arena, handle |-> 0, processed |-> 1, panic |-> TRUE]
    ELSE LET pipeline == ComputePipelineDescriptor_process(descriptor, module)
             handle == Len(arena.pipelines) + 1
         IN [arena |-> [pipelines |-> Append(arena.pipelines, pipeline),
                        descriptors |-> (handle :> descriptor) @@ arena.descriptors,
                        cached |-> (descriptor :> handle) @@ arena.cached],
             handle |-> handle,
             processed |-> 1,
             panic |-> FALSE]

\* Variant: the reload materializes from the default descriptor.
ComputeArena_reload_pipeline_default(arena, module, handle) ==
    LET desc == [label |-> Some("Compute Pipeline"), entry_point |-> "cs_main"]
    IN [arena EXCEPT !.pipelines[handle] = ComputePipelineDescriptor_process(desc, module)]

\* Variant: the new object is pushed as a new slot and the handle's slot is
\* left alone, so every reload grows the table.
ComputeArena_reload_pipeline_push(arena, module, handle) ==
    LET desc == arena.descriptors[handle]
    IN [arena EXCEPT !.pipelines =
            Append(@, ComputePipelineDescriptor_process(desc, module))]

\* ComputeArena::reload_pipeline, for a process() call that returns.
ComputeArena_reload_pipeline(arena, module, handle) ==
    LET desc == arena.descriptors[handle]
    IN [arena EXCEPT !.pipelines[handle] = ComputePipelineDescriptor_process(desc, module)]

\* ---------------------------------------------------------- Handle trait
\* <RenderHandle as Handle>::get_pipeline / get_descriptor
RenderHandle_get_pipeline(handle) == render.pipelines[handle]
RenderHandle_get_descriptor(handle) == render.descriptors[handle]

\* <ComputeHandle as Handle>::get_pipeline / get_descriptor
ComputeHandle_get_pipeline(handle) == compute.pipelines[handle]
ComputeHandle_get_descriptor(handle) == compute.descriptors[handle]

\* Arena::get_pipeline<H: Handle>: dispatch on the handle's type.
get_pipeline(h) ==
    IF h.tag = "Left" THEN RenderHandle_get_pipeline(h.handle)
                      ELSE ComputeHandle_get_pipeline(h.handle)

\* Arena::get_descriptor<H: Handle>
get_descriptor(h) ==
    IF h.tag = "Left" THEN RenderHandle_get_descriptor(h.handle)
                      ELSE ComputeHandle_get_descriptor(h.handle)

\* ------------------------------------------------------- path registry
\* Variant: a (path, handle) pair already in the list is not pushed again.
register_dedup(mapping, path, tagged) ==
    IF path \in DOMAIN mapping
    THEN IF \E i \in 1..Len(mapping[path]) : mapping[path][i] = tagged
         THEN mapping
         ELSE [mapping EXCEPT ![path] = Append(@, tagged)]
    ELSE (path :> <<tagged>>) @@ mapping

\* Variant: only the first handle of a path is recorded.
register_first_only(mapping, path, tagged) ==
    IF path \in DOMAIN mapping
    THEN mapping
    ELSE (path :> <<tagged>>) @@ mapping

\* path_mapping.entry(path).or_default().push(tagged)
register(mapping, path, tagged) ==
    IF path \in DOMAIN mapping
    THEN [mapping EXCEPT ![path] = Append(@, tagged)]
    ELSE (path :> <<tagged>>) @@ mapping

\* Watcher::watch_file: re-watching a watched path is a no-op.
watch_file(watched, path) == watched \cup {path}

\* utils::create_shader_module_with_path: the module of the file's current
\* content, or the compile error of an invalid source.
create_shader_module_with_path(path) ==
    IF files[path].valid
    THEN [path |-> path, ver |-> files[path].ver,
          entry_points |-> files[path].entry_points]
    ELSE CompileError

\* -------------------------------------------------------------- Arena
\* Variant: the handle is registered under the path on a cache miss only.
Arena_process_render_pipeline_miss_only(a, path, module, descriptor) ==
    LET r == RenderArena_process_pipeline(a.render, module, descriptor)
    IN IF r.panic
       THEN [arena |-> [a EXCEPT !.file_watcher = watch_file(a.file_watcher, path)],
             handle |-> 0, processed |-> r.processed, panic |-> TRUE]
       ELSE [arena |-> [render |-> r.arena,
                        compute |-> a.compute,
                        path_mapping |-> IF r.processed = 1
                                         THEN register(a.path_mapping, path, Left(r.handle))
                                         ELSE a.path_mapping,
                        file_watcher |-> watch_file(a.file_watcher, path)],
             handle |-> r.handle,
             processed |-> r.processed,
             panic |-> FALSE]

\* Variant: the path is registered but never handed to the watcher.
Arena_process_render_pipeline_unwatched(a, path, module, descriptor) ==
    LET r == RenderArena_process_pipeline(a.render, module, descriptor)
    IN IF r.panic
       THEN [arena |-> a, handle |-> 0, processed |-> r.processed, panic |-> TRUE]
       ELSE [arena |-> [render |-> r.arena,
                        compute |-> a.compute,
                        path_mapping |-> register(a.path_mapping, path, Left(r.handle)),
                        file_watcher |-> a.file_watcher],
             handle |-> r.handle,
             processed |-> r.processed,
             panic |-> FALSE]

\* Arena::process_render_pipeline on the arena a = [render, compute,
\* path_mapping, file_watcher]. The path is watched before process_pipeline
\* runs, so a panic of process() leaves it watched and nothing registered.
Arena_process_render_pipeline(a, path, module, descriptor) ==
    LET r == RenderArena_process_pipeline(a.render, module, descriptor)
    IN IF r.panic
       THEN [arena |-> [a EXCEPT !.file_watcher = watch_file(a.file_watcher, path)],
             handle |-> 0, processed |-> r.processed, panic |-> TRUE]
       ELSE [arena |-> [render |-> r.arena,
                        compute |-> a.compute,
                        path_mapping |-> register(a.path_mapping, path, Left(r.handle)),
                        file_watcher |-> watch_file(a.file_watcher, path)],
             handle |-> r.handle,
             processed |-> r.processed,
             panic |-> FALSE]

\* Variant: the compute handle is pushed with the render tag.
Arena_process_compute_pipeline_left_tag(a, path, module, descriptor) ==
    LET r == ComputeArena_process_pipeline(a.compute, module, descriptor)
    IN IF r.panic
       THEN [arena |-> [a EXCEPT !.file_watcher = watch_file(a.file_watcher, path)],
             handle |-> 0, processed |-> r.processed, panic |-> TRUE]
       ELSE [arena |-> [render |-> a.render,
                        compute |-> r.arena,
                        path_mapping |-> register(a.path_mapping, path, Left(r.handle)),
                        file_watcher |-> watch_file(a.file_watcher, path)],
             handle |-> r.handle,
             processed |-> r.processed,
             panic |-> FALSE]

\* Variant: the path is watched after the cache lookup, on a miss only.
Arena_process_compute_pipeline_watch_on_miss(a, path, module, descriptor) ==
    LET r == ComputeArena_process_pipeline(a.compute, module, descriptor)
    IN IF r.panic
       THEN [arena |-> a, handle |-> 0, processed |-> r.processed, panic |-> TRUE]
       ELSE [arena |-> [render |-> a.render,
                        compute |-> r.arena,
                        path_mapping |-> register(a.path_mapping, path, Right(r.handle)),
                        file_watcher |-> IF r.processed = 1
                                         THEN watch_file(a.file_watcher, path)
                                         ELSE a.file_watcher],
             handle |-> r.handle,
             processed |-> r.processed,
             panic |-> FALSE]

\* Arena::process_compute_pipeline
Arena_process_compute_pipeline(a, path, module, descriptor) ==
    LET r == ComputeArena_process_pipeline(a.compute, module, descriptor)
    IN IF r.panic
       THEN [arena |-> [a EXCEPT !.file_watcher = watch_file(a.file_watcher, path)],
             handle |-> 0, processed |-> r.processed, panic |-> TRUE]
       ELSE [arena |-> [render |-> a.render,
                        compute |-> r.arena,
                        path_mapping |-> register(a.path_mapping, path, Right(r.handle)),
                        file_watcher |-> watch_file(a.file_watcher, path)],
             handle |-> r.handle,
             processed |-> r.processed,
             panic |-> FALSE]

\* reload_pipeline panics when the handle has no descriptor or no slot (the
\* index expressions) or when process() does.
reload_panics(a, module, tagged) ==
    LET arena == IF tagged.tag = "Left" THEN a.render ELSE a.compute
    IN \/ tagged.handle \notin DOMAIN arena.descriptors
       \/ tagged.handle \notin DOMAIN arena.pipelines
       \/ process_panics(arena.descriptors[tagged.handle], module)

\* Variant: the tag is ignored, the render table is indexed by any handle.
reload_one_untagged(a, module, tagged) ==
    IF tagged.handle \in DOMAIN a.render.pipelines
    THEN [a EXCEPT !.render = RenderArena_reload_pipeline(a.render, module, tagged.handle)]
    ELSE a

\* Variant: each handle is rebuilt from the module of the file its current
\* object was built from, not from the module of the reload.
reload_one_own_module(a, module, tagged) ==
    LET arena == IF tagged.tag = "Left" THEN a.render ELSE a.compute
        own == arena.pipelines[tagged.handle].module.path
        m == [module EXCEPT !.path = own, !.ver = files[own].ver]
    IN IF tagged.tag = "Left"
       THEN [a EXCEPT !.render = RenderArena_reload_pipeline(a.render, m, tagged.handle)]
       ELSE [a EXCEPT !.compute = ComputeArena_reload_pipeline(a.compute, m, tagged.handle)]

\* Variant: the next slot of the table is rebuilt along with the handle's.
reload_one_and_next(a, module, tagged) ==
    LET next == tagged.handle + 1
    IN IF tagged.tag = "Left"
       THEN LET r == RenderArena_reload_pipeline(a.render, module, tagged.handle)
            IN [a EXCEPT !.render = IF next \in DOMAIN r.pipelines
                                    THEN RenderArena_reload_pipeline(r, module, next)
                                    ELSE r]
       ELSE LET c == ComputeArena_reload_pipeline(a.compute, module, tagged.handle)
            IN [a EXCEPT !.compute = IF next \in DOMAIN c.pipelines
                                     THEN ComputeArena_reload_pipeline(c, module, next)
                                     ELSE c]

\* One iteration of the loop of Arena::reload_pipelines.
reload_one(a, module, tagged) ==
    IF tagged.tag = "Left"
    THEN [a EXCEPT !.render = RenderArena_reload_pipeline(a.render, module, tagged.handle)]
    ELSE [a EXCEPT !.compute = ComputeArena_reload_pipeline(a.compute, module, tagged.handle)]

\* Variant: the loop stops after the first handle of the list.
reload_loop_first_only(a, module, handles) ==
    IF handles = <<>> THEN [arena |-> a, processed |-> 0, panic |-> FALSE]
    ELSE IF reload_panics(a, module, Head(handles))
    THEN [arena |-> a, processed |-> 1, panic |-> TRUE]
    ELSE [arena |-> reload_one(a, module, Head(handles)),
          processed |-> 1, panic |-> FALSE]

\* The loop of Arena::reload_pipelines over the handle list of the path. A
\* panic in one iteration unwinds out of the loop: the handles before it
\* have their new object, the one that failed and those after it do not.
RECURSIVE reload_loop(_, _, _)
reload_loop(a, module, handles) ==
    IF handles = <<>> THEN [arena |-> a, processed |-> 0, panic |-> FALSE]
    ELSE IF reload_panics(a, module, Head(handles))
    THEN [arena |-> a, processed |-> 1, panic |-> TRUE]
    ELSE LET r == reload_loop(reload_one(a, module, Head(handles)), module, Tail(handles))
         IN [arena |-> r.arena, processed |-> r.processed + 1, panic |-> r.panic]

\* Variant: an unregistered path is treated as a path with no handles.
Arena_reload_pipelines_or_default(a, path, module) ==
    IF path \notin DOMAIN a.path_mapping
    THEN [arena |-> a, processed |-> 0, panic |-> FALSE]
    ELSE reload_loop(a, module, a.path_mapping[path])

\* Arena::reload_pipelines: path_mapping[path] panics on an unregistered path.
Arena_reload_pipelines(a, path, module) ==
    IF path \notin DOMAIN a.path_mapping
    THEN [arena |-> a, processed |-> 0, panic |-> TRUE]
    ELSE reload_loop(a, module, a.path_mapping[path])

\* ------------------------------------------------------- machine integers
\* A u32 / u64 is kept as its 16-bit limbs, least significant first (2 limbs
\* for u32, 4 for u64), so that arithmetic wraps at the width of the type.
RECURSIVE ToLimbs(_, _)
ToLimbs(n, k) ==
    IF k = 0 THEN <<>> ELSE <<n % 65536>> \o ToLimbs(n \div 65536, k - 1)

\* a + b + carry on limb sequences of equal length; the carry out of the
\* top limb is dropped (wrapping).
RECURSIVE AddLimbs(_, _, _)
AddLimbs(a, b, carry) ==
    IF a = <<>> THEN <<>>
    ELSE LET sum == Head(a) + Head(b) + carry
         IN <<sum % 65536>> \o AddLimbs(Tail(a), Tail(b), sum \div 65536)

\* a - b - borrow on limb sequences of equal length (wrapping).
RECURSIVE SubLimbs(_, _, _)
SubLimbs(a, b, borrow) ==
    IF a = <<>> THEN <<>>
    ELSE LET d == Head(a) - Head(b) - borrow
         IN IF d < 0 THEN <<d + 65536>> \o SubLimbs(Tail(a), Tail(b), 1)
                     ELSE <<d>> \o SubLimbs(Tail(a), Tail(b), 0)

\* a >= b, compared from the top limb down.
RECURSIVE LimbsGeq(_, _)
LimbsGeq(a, b) ==
    IF a = <<>> THEN TRUE
    ELSE LET n == Len(a)
         IN IF a[n] # b[n] THEN a[n] > b[n]
            ELSE LimbsGeq(SubSeq(a, 1, n - 1), SubSeq(b, 1, n - 1))

\* a * k for a small k (wrapping).
RECURSIVE MulLimbs(_, _, _)
MulLimbs(a, k, carry) ==
    IF a = <<>> THEN <<>>
    ELSE LET p == Head(a) * k + carry
         IN <<p % 65536>> \o MulLimbs(Tail(a), k, p \div 65536)

\* Quotient and remainder of a by a small d, from the top limb down.
RECURSIVE DivLimbs(_, _, _)
DivLimbs(a, d, rem) ==
    IF a = <<>> THEN [quotient |-> <<>>, remainder |-> rem]
    ELSE LET n == Len(a)
             cur == rem * 65536 + a[n]
             r == DivLimbs(SubSeq(a, 1, n - 1), d, cur % d)
         IN [quotient |-> Append(r.quotient, cur \div d), remainder |-> r.remainder]

u32(n) == ToLimbs(n, 2)
u64(n) == ToLimbs(n, 4)
\* u64::MAX - 1
U64MaxMinus1 == <<65534, 65535, 65535, 65535>>
\* u64::wrapping_add
u64_wrapping_add(a, b) == AddLimbs(a, b, 0)
\* AtomicU32::fetch_add stores the wrapping sum and returns the old value.
AtomicU32_fetch_add(a, n) == [new |-> AddLimbs(a, u32(n), 0), old |-> a]

\* ------------------------------------------------------------------- f64
\* The f64 values of the timestep loop are non-negative and below 1; each is
\* kept exactly, as the integer number of units of 2^-64 it holds, in four
\* limbs. Every operation rounds its exact result to 53 significant bits,
\* ties to even, as IEEE 754 binary64 does.
RECURSIVE BitLen(_)
BitLen(v) == IF v = 0 THEN 0 ELSE 1 + BitLen(v \div 2)

\* Number of significant bits of a limb sequence.
RECURSIVE LimbsBitLen(_)
LimbsBitLen(a) ==
    IF a = <<>> THEN 0
    ELSE LET n == Len(a)
         IN IF a[n] # 0 THEN 16 * (n - 1) + BitLen(a[n])
            ELSE LimbsBitLen(SubSeq(a, 1, n - 1))

\* Round the exact value a (+ a positive fraction of a unit when sticky) to
\* 53 significant bits, ties to even.
f64_round(a, sticky) ==
    LET s == LimbsBitLen(a) - 53
    IN IF s <= 0 THEN a
       ELSE LET grid == 2 ^ s
                rem == a[1] % grid
                down == [a EXCEPT ![1] = @ - rem]
                up == AddLimbs(down, u64(grid), 0)
                odd == (a[1] \div grid) % 2 = 1
            IN IF 2 * rem > grid \/ (2 * rem = grid /\ (sticky \/ odd))
               THEN up ELSE down

f64_add(a, b) == f64_round(AddLimbs(a, b, 0), FALSE)
\* a - b for a >= b
f64_sub(a, b) == f64_round(SubLimbs(a, b, 0), FALSE)
f64_mul(a, k) == f64_round(MulLimbs(a, k, 0), FALSE)
f64_ge(a, b) == LimbsGeq(a, b)
f64_min(a, b) == IF LimbsGeq(a, b) THEN b ELSE a
f64_zero == u64(0)

\* 1. / k for a small integer k >= 2: the quotient of 2^64 units by k.
f64_recip(k) ==
    LET r == DivLimbs(<<0, 0, 0, 0, 1>>, k, 0)
    IN f64_round(SubSeq(r.quotient, 1, 4), r.remainder # 0)

UPDATES_PER_SECOND == 60
\* 1. / UPDATES_PER_SECOND as f64 = 0x1.1111111111111p-6
FIXED_TIME_STEP == f64_recip(UPDATES_PER_SECOND)
\* 15. * FIXED_TIME_STEP = 0x1.0p-2
MAX_FRAME_TIME == f64_mul(FIXED_TIME_STEP, 15)

\* Duration::as_secs_f64 of the elapsed times the model draws, in
\* milliseconds: 0x1.47ae147ae147bp-8, 0x1.0624dd2f1a9fcp-6,
\* 0x1.70a3d70a3d70ap-5, 0x1.3333333333333p-2.
ElapsedMs == {5, 16, 45, 300}
as_secs_f64(ms) ==
    CASE ms = 5 -> <<18352, 31457, 44564, 327>>
      [] ms = 16 -> <<32512, 48234, 37748, 1048>>
      [] ms = 45 -> <<34048, 20971, 7864, 2949>>
      [] ms = 300 -> <<52224, 52428, 52428, 19660>>

\* --------------------------------------------------------------- AppState
\* AppState::new. Of the fields, frame_count and recording are kept; the
\* camera, the clock and the key map take no part in what update returns
\* about recording.
AppState_new == [frame_count |-> u64(0), recording |-> FALSE]

\* Variant: F4 always asks to start.
AppState_update_always_start(s, f3, f4) ==
    [state |-> [frame_count |-> u64_wrapping_add(s.frame_count, u64(1)),
                recording |-> IF f4 THEN ~s.recording ELSE s.recording],
     actions |-> (IF f3 THEN <<"Screenshot">> ELSE <<>>)
                 \o (IF f4 THEN <<"StartRecording">> ELSE <<>>)]

\* AppState::update(dt), given what keyboard().was_just_pressed answers for
\* F3 and F4 in this call: the state after it and the actions it returns.
AppState_update(s, f3, f4) ==
    [state |-> [frame_count |-> u64_wrapping_add(s.frame_count, u64(1)),
                recording |-> IF f4 THEN ~s.recording ELSE s.recording],
     actions |-> (IF f3 THEN <<"Screenshot">> ELSE <<>>)
                 \o (IF f4 THEN <<IF ~s.recording THEN "StartRecording"
                                                  ELSE "FinishRecording">>
                           ELSE <<>>)]

\* -------------------------------------------------------------------- App
\* Recorder::is_active / start / finish: the recorder is kept as its active
\* flag.
Recorder_new == FALSE
Recorder_is_active(recorder) == recorder
Recorder_start(recorder) == TRUE
Recorder_finish(recorder) == FALSE

\* The sizes a window takes.
Sizes ==
    { [width |-> 0, height |-> 0],
      [width |-> 1280, height |-> 1024],
      [width |-> 800, height |-> 600] }

\* App::new: the surface is configured with the window's inner size.
App_new ==
    [recorder |-> Recorder_new, surface_config |-> [width |-> 1280, height |-> 1024]]

\* An action is applied to a recorder in the wrong state: a finish to an
\* inactive recorder or a start to an active one.
Misapplied(a, action) ==
    \/ action = "FinishRecording" /\ ~Recorder_is_active(a.recorder)
    \/ action = "StartRecording" /\ Recorder_is_active(a.recorder)

\* One arm of the match in the loop of App::update.
App_apply(a, action) ==
    CASE action = "Screenshot" -> a
      [] action = "StartRecording" -> [a EXCEPT !.recorder = Recorder_start(@)]
      [] action = "FinishRecording" -> [a EXCEPT !.recorder = Recorder_finish(@)]

\* App::update(state, actions): the loop over the actions. misapplied counts
\* the actions that found the recorder in the wrong state.
RECURSIVE App_update(_, _)
App_update(a, acts) ==
    IF acts = <<>> THEN [app |-> a, misapplied |-> 0]
    ELSE LET r == App_update(App_apply(a, Head(acts)), Tail(acts))
         IN [app |-> r.app,
             misapplied |-> r.misapplied
                            + (IF Misapplied(a, Head(acts)) THEN 1 ELSE 0)]

\* App::resize: nothing for an unchanged size; otherwise the surface is
\* reconfigured and an active recorder is finished.
App_resize(a, width, height) ==
    IF a.surface_config.width = width /\ a.surface_config.height = height
    THEN a
    ELSE [recorder |-> IF Recorder_is_active(a.recorder)
                       THEN Recorder_finish(a.recorder) ELSE a.recorder,
          surface_config |-> [width |-> width, height |-> height]]

\* ----------------------------------------------------- VertexBufferLayout
VertexFormats == {"Float32x2", "Float32x3", "Float32x4", "Unorm8x2"}
StepModes == {"Vertex", "Instance"}

\* wgpu::VertexFormat::size
VertexFormat_size(format) ==
    CASE format = "Float32x2" -> 8
      [] format = "Float32x3" -> 12
      [] format = "Float32x4" -> 16
      [] format = "Unorm8x2" -> 2

\* Variant: the offset is advanced before the attribute is pushed.
RECURSIVE from_vertex_formats_loop_offset_after(_, _, _, _)
from_vertex_formats_loop_offset_after(vertex_formats, shader_location, offset, attributes) ==
    IF vertex_formats = <<>> THEN [offset |-> offset, attributes |-> attributes]
    ELSE LET format == Head(vertex_formats)
         IN from_vertex_formats_loop_offset_after(
                Tail(vertex_formats), shader_location + 1,
                offset + VertexFormat_size(format),
                Append(attributes,
                       [format |-> format,
                        offset |-> offset + VertexFormat_size(format),
                        shader_location |-> shader_location]))

\* The for loop of from_vertex_formats over enumerate(): shader_location
\* counts the iterations from 0, offset is the running sum of the sizes.
RECURSIVE from_vertex_formats_loop(_, _, _, _)
from_vertex_formats_loop(vertex_formats, shader_location, offset, attributes) ==
    IF vertex_formats = <<>> THEN [offset |-> offset, attributes |-> attributes]
    ELSE LET format == Head(vertex_formats)
         IN from_vertex_formats_loop(
                Tail(vertex_formats), shader_location + 1,
                offset + VertexFormat_size(format),
                Append(attributes,
                       [format |-> format, offset |-> offset,
                        shader_location |-> shader_location]))

\* VertexBufferLayout::from_vertex_formats
from_vertex_formats(step_mode, vertex_formats) ==
    LET r == from_vertex_formats_loop(vertex_formats, 0, 0, <<>>)
    IN [array_stride |-> r.offset, step_mode |-> step_mode,
        attributes |-> r.attributes]

\* ---------------------------------------------------------------- MeshPool
\* A mesh, as far as the pool looks at it: how many vertices and indices.
MeshRef(name, vertices, indices) ==
    [name |-> name, vertices |-> vertices, indices |-> indices]

\* make_plane_mesh(1., 1.), make_uv_sphere(1., 1), make_uv_sphere(1., 10)
BuiltinMeshes ==
    << MeshRef("plane", 4, 6), MeshRef("uv_sphere_1", 6, 12),
       MeshRef("uv_sphere_10", 121, 600) >>

\* The meshes a scene adds.
Meshes == { MeshRef("cube", 24, 36), MeshRef("triangle", 3, 3), MeshRef("empty", 0, 0) }

PLANE_MESH == 0
SPHERE_1_MESH == 1
SPHERE_10_MESH == 2

\* The pool before the first add.
MeshPool_empty ==
    [vertex_offset |-> u32(0), base_index |-> u32(0), mesh_index |-> u32(0),
     mesh_info_cpu |-> <<>>]

\* Variant: the offsets recorded are the counters after the mesh.
MeshPool_add_after(pool, mesh) ==
    LET vertex_offset == AtomicU32_fetch_add(pool.vertex_offset, mesh.vertices)
        base_index == AtomicU32_fetch_add(pool.base_index, mesh.indices)
        mesh_index == AtomicU32_fetch_add(pool.mesh_index, 1)
        mesh_info == [vertex_offset |-> vertex_offset.new,
                      base_index |-> base_index.new,
                      index_count |-> u32(mesh.indices)]
    IN [pool |-> [vertex_offset |-> vertex_offset.new,
                  base_index |-> base_index.new,
                  mesh_index |-> mesh_index.new,
                  mesh_info_cpu |-> Append(pool.mesh_info_cpu, mesh_info)],
        id |-> mesh_index.old]

\* MeshPool::add: the pool after it and the MeshId it returns. The i32
\* vertex_offset of MeshInfo is kept as the bits of the u32 it is cast from.
MeshPool_add(pool, mesh) ==
    LET vertex_offset == AtomicU32_fetch_add(pool.vertex_offset, mesh.vertices)
        base_index == AtomicU32_fetch_add(pool.base_index, mesh.indices)
        mesh_index == AtomicU32_fetch_add(pool.mesh_index, 1)
        mesh_info == [vertex_offset |-> vertex_offset.old,
                      base_index |-> base_index.old,
                      index_count |-> u32(mesh.indices)]
    IN [pool |-> [vertex_offset |-> vertex_offset.new,
                  base_index |-> base_index.new,
                  mesh_index |-> mesh_index.new,
                  mesh_info_cpu |-> Append(pool.mesh_info_cpu, mesh_info)],
        id |-> mesh_index.old]

\* MeshPool::count
MeshPool_count(pool) == pool.mesh_index

\* MeshPool::new: the empty pool, then the three built-in meshes in order.
MeshPool_new ==
    MeshPool_add(MeshPool_add(MeshPool_add(MeshPool_empty, BuiltinMeshes[1]).pool,
                              BuiltinMeshes[2]).pool,
                 BuiltinMeshes[3]).pool

\* ------------------------------------------------------------ MaterialPool
Materials == {"default", "light", "metal"}
LIGHT_MATERIAL == 1

\* MaterialPool::new: the buffer starts with two default materials.
MaterialPool_new == [buffer |-> <<"default", "default">>]

\* ResizableBuffer::push appends to the buffer.
ResizableBuffer_push(buffer, items) == buffer \o items

\* Variant: the id is the length of the buffer after the push.
MaterialPool_add_len(pool, material) ==
    LET buffer == ResizableBuffer_push(pool.buffer, <<material>>)
    IN [pool |-> [buffer |-> buffer], id |-> u32(Len(buffer))]

\* MaterialPool::add: the pool after it and the MaterialId it returns,
\* buffer.len() as u32 - 1.
MaterialPool_add(pool, material) ==
    LET buffer == ResizableBuffer_push(pool.buffer, <<material>>)
    IN [pool |-> [buffer |-> buffer],
        id |-> SubLimbs(u32(Len(buffer)), u32(1), 0)]

\* ------------------------------------------------ the application at start
NoLayout == [step_mode |-> "Vertex", vertex_formats |-> <<>>, result |-> None]

NoHistory ==
    [updates |-> 0, presses |-> 0, calls |-> 0, steps |-> 0, misapplied |-> 0,
     adds |-> 0, meshes |-> BuiltinMeshes, op |-> "new", id |-> u32(0)]

AppInit ==
    /\ state = AppState_new
    /\ app = App_new
    /\ actions = <<>>
    /\ accumulated_time = f64_zero
    /\ layout = NoLayout
    /\ mesh_pool = MeshPool_new
    /\ material_pool = MaterialPool_new
    /\ history = NoHistory

\* ------------------------------------------------------------- the state
TheArena ==
    [render |-> render, compute |-> compute,
     path_mapping |-> path_mapping, file_watcher |-> file_watcher]

SetArena(a) ==
    /\ render' = a.render
    /\ compute' = a.compute
    /\ path_mapping' = a.path_mapping
    /\ file_watcher' = a.file_watcher

RECURSIVE SumLen(_, _)
SumLen(mapping, ps) ==
    IF ps = {} THEN 0
    ELSE LET p == CHOOSE q \in ps : TRUE
         IN Len(mapping[p]) + SumLen(mapping, ps \ {p})

\* Number of registrations made so far.
TotalRegistered == SumLen(path_mapping, DOMAIN path_mapping)

RECURSIVE SumVer(_)
SumVer(ps) ==
    IF ps = {} THEN 0
    ELSE LET p == CHOOSE q \in ps : TRUE
         IN (files[p].ver - 1) + SumVer(ps \ {p})

\* Number of edits made so far.
TotalEdits == SumVer(Paths)

NoOp ==
    [op |-> "new", path |-> "", descriptor |-> NoDesc, module |-> NoModule,
     ok |-> TRUE, hit |-> FALSE, handle |-> 0, processed |-> 0, compiles |-> 0,
     tag |-> "", name |-> ""]

\* The event-loop thread between two callbacks, after resumed: the Option
\* fields file_watcher, window and renderer of AppRunner are kept as their
\* is_some().
RunnerIdle ==
    [pc |-> "idle", todo |-> <<>>, module |-> NoModule, frame |-> <<>>,
     file_watcher |-> FALSE, window |-> TRUE, renderer |-> TRUE]

\* Arena::new, with every shader file valid at version 1, and the event-loop
\* thread idle.
ArenaInit ==
    /\ render = NewArena
    /\ compute = NewArena
    /\ path_mapping = EmptyMap
    /\ file_watcher = {}
    /\ files = [p \in Paths |->
                  [ver |-> 1, valid |-> TRUE, entry_points |-> EntryPoints]]
    /\ events = {}
    /\ panicked = FALSE
    /\ makeCount = [d \in AllDescs |-> 0]
    /\ origin = EmptyMap
    /\ failed = {}
    /\ runner = RunnerIdle
    /\ last = NoOp

\* The arena taken alone: no runner state, recorder or pool is constructed
\* around it, and the variables of the application hold nothing.
NoApp ==
    /\ state = None
    /\ app = None
    /\ actions = None
    /\ accumulated_time = None
    /\ layout = None
    /\ mesh_pool = None
    /\ material_pool = None
    /\ history = None

Init == ArenaInit /\ NoApp

\* The arena inside a constructed application.
AppRunnerInit == ArenaInit /\ AppInit

\* Variant: the registry entry of the path is created before the module is
\* compiled.
process_render_pipeline_from_path_entry_first(path, descriptor) ==
    /\ ~panicked
    /\ TotalRegistered < MaxCalls
    /\ LET module == create_shader_module_with_path(path)
       IN IF module = CompileError
          THEN /\ path_mapping' = IF path \in DOMAIN path_mapping
                                  THEN path_mapping
                                  ELSE (path :> <<>>) @@ path_mapping
               /\ UNCHANGED <<render, compute, file_watcher, makeCount, origin, panicked>>
               /\ last' = [NoOp EXCEPT !.op = "process_render_pipeline_from_path",
                                       !.path = path, !.descriptor = descriptor,
                                       !.module = CompileError, !.ok = FALSE,
                                       !.compiles = 1]
          ELSE LET r == Arena_process_render_pipeline(TheArena, path, module, descriptor)
               IN /\ SetArena(r.arena)
                  /\ panicked' = r.panic
                  /\ makeCount' = [makeCount EXCEPT ![descriptor] = @ + r.processed]
                  /\ origin' = IF r.processed = 1 /\ ~r.panic
                                THEN (Left(r.handle) :> path) @@ origin
                                ELSE origin
                  /\ last' = [op |-> "process_render_pipeline_from_path", path |-> path,
                              descriptor |-> descriptor, module |-> module,
                              ok |-> ~r.panic,
                              hit |-> descriptor \in DOMAIN render.cached,
                              handle |-> r.handle, processed |-> r.processed,
                              compiles |-> 1, tag |-> "", name |-> ""]
    /\ UNCHANGED <<files, events, failed, runner>>
    /\ UNCHANGED app_vars

\* Arena::process_render_pipeline_from_path. The module is compiled first;
\* a compile error is reported before anything else runs.
process_render_pipeline_from_path(path, descriptor) ==
    /\ ~panicked
    /\ TotalRegistered < MaxCalls
    /\ LET module == create_shader_module_with_path(path)
       IN IF module = CompileError
          THEN /\ UNCHANGED <<render, compute, path_mapping, file_watcher,
                              makeCount, origin, panicked>>
               /\ last' = [NoOp EXCEPT !.op = "process_render_pipeline_from_path",
                                       !.path = path, !.descriptor = descriptor,
                                       !.module = CompileError, !.ok = FALSE,
                                       !.compiles = 1]
          ELSE LET r == Arena_process_render_pipeline(TheArena, path, module, descriptor)
               IN /\ SetArena(r.arena)
                  /\ panicked' = r.panic
                  /\ makeCount' = [makeCount EXCEPT ![descriptor] = @ + r.processed]
                  /\ origin' = IF r.processed = 1 /\ ~r.panic
                                THEN (Left(r.handle) :> path) @@ origin
                                ELSE origin
                  /\ last' = [op |-> "process_render_pipeline_from_path", path |-> path,
                              descriptor |-> descriptor, module |-> module,
                              ok |-> ~r.panic,
                              hit |-> descriptor \in DOMAIN render.cached,
                              handle |-> r.handle, processed |-> r.processed,
                              compiles |-> 1, tag |-> "", name |-> ""]
    /\ UNCHANGED <<files, events, failed, runner>>
    /\ UNCHANGED app_vars

\* Arena::process_compute_pipeline_from_path
process_compute_pipeline_from_path(path, descriptor) ==
    /\ ~panicked
    /\ TotalRegistered < MaxCalls
    /\ LET module == create_shader_module_with_path(path)
       IN IF module = CompileError
          THEN /\ UNCHANGED <<render, compute, path_mapping, file_watcher,
                              makeCount, origin, panicked>>
               /\ last' = [NoOp EXCEPT !.op = "process_compute_pipeline_from_path",
                                       !.path = path, !.descriptor = descriptor,
                                       !.module = CompileError, !.ok = FALSE,
                                       !.compiles = 1]
          ELSE LET r == Arena_process_compute_pipeline(TheArena, path, module, descriptor)
               IN /\ SetArena(r.arena)
                  /\ panicked' = r.panic
                  /\ makeCount' = [makeCount EXCEPT ![descriptor] = @ + r.processed]
                  /\ origin' = IF r.processed = 1 /\ ~r.panic
                                THEN (Right(r.handle) :> path) @@ origin
                                ELSE origin
                  /\ last' = [op |-> "process_compute_pipeline_from_path", path |-> path,
                              descriptor |-> descriptor, module |-> module,
                              ok |-> ~r.panic,
                              hit |-> descriptor \in DOMAIN compute.cached,
                              handle |-> r.handle, processed |-> r.processed,
                              compiles |-> 1, tag |-> "", name |-> ""]
    /\ UNCHANGED <<files, events, failed, runner>>
    /\ UNCHANGED app_vars

\* The shader file is edited on disk; the watcher posts one changed-path
\* event for a watched file.
file_change(path, content) ==
    /\ ~panicked
    /\ files[path].ver < MaxVer
    /\ TotalEdits < MaxEdits
    /\ files' = [files EXCEPT ![path] =
                   [ver |-> @.ver + 1, valid |-> content.valid,
                    entry_points |-> content.entry_points]]
    /\ events' = IF path \in file_watcher THEN events \cup {path} ELSE events
    /\ last' = [NoOp EXCEPT !.op = "file_change", !.path = path, !.ok = content.valid]
    /\ UNCHANGED <<render, compute, path_mapping, file_watcher, panicked,
                   makeCount, origin, failed, runner>>
    /\ UNCHANGED app_vars

\* Variant: a compile error does not stop the replay.
PipelineArena_reload_pipelines_onerror(a, path) ==
    LET module == create_shader_module_with_path(path)
        r == Arena_reload_pipelines(a, path, [module EXCEPT !.entry_points = EntryPoints])
    IN [arena |-> r.arena, module |-> module,
        ok |-> (module # CompileError) /\ ~r.panic,
        processed |-> r.processed, panic |-> r.panic, compiles |-> 1]

\* Variant: a compile error drops the path from the watched set.
PipelineArena_reload_pipelines_unregister(a, path) ==
    LET module == create_shader_module_with_path(path)
    IN IF module = CompileError
       THEN [arena |-> [a EXCEPT !.file_watcher = @ \ {path}],
             module |-> CompileError, ok |-> FALSE,
             processed |-> 0, panic |-> FALSE, compiles |-> 1]
       ELSE LET r == Arena_reload_pipelines(a, path, module)
            IN [arena |-> r.arena, module |-> module, ok |-> ~r.panic,
                processed |-> r.processed, panic |-> r.panic, compiles |-> 1]

\* The reload entry point App::handle_events calls: compile the module of
\* the path once; on a compile error report it and touch nothing, else
\* replay every handle registered under the path.
PipelineArena_reload_pipelines(a, path) ==
    LET module == create_shader_module_with_path(path)
    IN IF module = CompileError
       THEN [arena |-> a, module |-> CompileError, ok |-> FALSE,
             processed |-> 0, panic |-> FALSE, compiles |-> 1]
       ELSE LET r == Arena_reload_pipelines(a, path, module)
            IN [arena |-> r.arena, module |-> module, ok |-> ~r.panic,
                processed |-> r.processed, panic |-> r.panic, compiles |-> 1]

\* App::handle_events: the event loop hands one changed path to the arena.
handle_events(path) ==
    /\ ~panicked
    /\ path \in events
    /\ events' = events \ {path}
    /\ LET r == PipelineArena_reload_pipelines(TheArena, path)
       IN /\ SetArena(r.arena)
          /\ panicked' = r.panic
          /\ failed' = IF r.module = CompileError THEN failed \cup {path} ELSE failed
          /\ last' = [NoOp EXCEPT !.op = "reload", !.path = path, !.module = r.module,
                                  !.ok = r.ok, !.processed = r.processed,
                                  !.compiles = r.compiles]
    /\ UNCHANGED <<files, makeCount, origin, runner>>
    /\ UNCHANGED app_vars

\* A caller compiles the module of a path and calls
\* Arena::reload_pipelines(device, path, module) with it.
reload_pipelines(path) ==
    /\ ~panicked
    /\ files[path].valid
    /\ LET module == create_shader_module_with_path(path)
           r == Arena_reload_pipelines(TheArena, path, module)
       IN /\ SetArena(r.arena)
          /\ panicked' = r.panic
          /\ last' = [NoOp EXCEPT !.op = "reload", !.path = path, !.module = module,
                                  !.ok = ~r.panic, !.processed = r.processed,
                                  !.compiles = 1]
    /\ UNCHANGED <<files, events, makeCount, origin, failed, runner>>
    /\ UNCHANGED app_vars

Next ==
    \/ \E p \in Paths, d \in RenderDescs : process_render_pipeline_from_path(p, d)
    \/ \E p \in Paths, d \in ComputeDescs : process_compute_pipeline_from_path(p, d)
    \/ \E p \in Paths, c \in Contents : file_change(p, c)
    \/ \E p \in Paths : handle_events(p)
    \/ \E p \in Paths : reload_pipelines(p)

Spec == Init /\ [][Next]_vars

\* ---------------------------------------------------------------- readers
\* The calls that only read: a pass resolves a handle
\* (rpass.set_pipeline(arena.get_pipeline(self.pipeline))), a caller asks a
\* descriptor for its name.

\* The handles a caller can hold: key 0 is the null key of Default, and a
\* key above the table's length was never issued.
Keys == 0..MaxCalls
TaggedKeys == {Left(k) : k \in Keys} \cup {Right(k) : k \in Keys}

\* The table a tagged handle indexes.
TableOf(h) == IF h.tag = "Left" THEN render ELSE compute

\* Variant: the label is ignored.
RenderPipelineDescriptor_name_generic(descriptor) == "Render Pipeline"

\* RenderPipelineDescriptor::name
RenderPipelineDescriptor_name(descriptor) ==
    IF descriptor.label = None THEN "Render Pipeline" ELSE descriptor.label[1]

\* The descriptors name() is applied to: the labelled ones and one whose
\* label is unset.
NameInputs == RenderDescs \cup {[label |-> None, entry_point |-> "vs_main"]}

\* Variant: a key the table does not hold resolves to the newest slot.
Arena_get_pipeline_clamped(h) ==
    /\ ~panicked
    /\ LET n == Len(TableOf(h).pipelines)
           k == IF h.handle \in 1..n THEN h.handle ELSE n
       IN IF n = 0
          THEN /\ panicked' = TRUE
               /\ last' = [NoOp EXCEPT !.op = "get_pipeline", !.tag = h.tag,
                                       !.handle = h.handle, !.ok = FALSE]
          ELSE /\ panicked' = FALSE
               /\ last' = [NoOp EXCEPT !.op = "get_pipeline", !.tag = h.tag,
                                       !.handle = h.handle,
                                       !.descriptor = TableOf(h).pipelines[k].descriptor,
                                       !.module = TableOf(h).pipelines[k].module]
    /\ UNCHANGED <<render, compute, path_mapping, file_watcher, files, events,
                   makeCount, origin, failed, runner>>
    /\ UNCHANGED app_vars

\* Arena::get_pipeline(handle): pipelines[handle] panics on a key the
\* SlotMap does not hold.
Arena_get_pipeline(h) ==
    /\ ~panicked
    /\ IF h.handle \in DOMAIN TableOf(h).pipelines
       THEN /\ panicked' = FALSE
            /\ last' = [NoOp EXCEPT !.op = "get_pipeline", !.tag = h.tag,
                                    !.handle = h.handle,
                                    !.descriptor = get_pipeline(h).descriptor,
                                    !.module = get_pipeline(h).module]
       ELSE /\ panicked' = TRUE
            /\ last' = [NoOp EXCEPT !.op = "get_pipeline", !.tag = h.tag,
                                    !.handle = h.handle, !.ok = FALSE]
    /\ UNCHANGED <<render, compute, path_mapping, file_watcher, files, events,
                   makeCount, origin, failed, runner>>
    /\ UNCHANGED app_vars

\* Variant: the getter takes the descriptor out of the table.
Arena_get_descriptor_take(h) ==
    /\ ~panicked
    /\ IF h.handle \in DOMAIN TableOf(h).descriptors
       THEN /\ panicked' = FALSE
            /\ last' = [NoOp EXCEPT !.op = "get_descriptor", !.tag = h.tag,
                                    !.handle = h.handle,
                                    !.descriptor = get_descriptor(h)]
            /\ IF h.tag = "Left"
               THEN /\ render' = RenderArena_reload_pipeline_evict(render, NoModule, h.handle)
                    /\ compute' = compute
               ELSE /\ compute' = RenderArena_reload_pipeline_evict(compute, NoModule, h.handle)
                    /\ render' = render
       ELSE /\ panicked' = TRUE
            /\ last' = [NoOp EXCEPT !.op = "get_descriptor", !.tag = h.tag,
                                    !.handle = h.handle, !.ok = FALSE]
            /\ UNCHANGED <<render, compute>>
    /\ UNCHANGED <<path_mapping, file_watcher, files, events,
                   makeCount, origin, failed, runner>>
    /\ UNCHANGED app_vars

\* Arena::get_descriptor(handle): descriptors[handle] panics on a key the
\* SecondaryMap does not hold.
Arena_get_descriptor(h) ==
    /\ ~panicked
    /\ IF h.handle \in DOMAIN TableOf(h).descriptors
       THEN /\ panicked' = FALSE
            /\ last' = [NoOp EXCEPT !.op = "get_descriptor", !.tag = h.tag,
                                    !.handle = h.handle,
                                    !.descriptor = get_descriptor(h)]
       ELSE /\ panicked' = TRUE
            /\ last' = [NoOp EXCEPT !.op = "get_descriptor", !.tag = h.tag,
                                    !.handle = h.handle, !.ok = FALSE]
    /\ UNCHANGED <<render, compute, path_mapping, file_watcher, files, events,
                   makeCount, origin, failed, runner>>
    /\ UNCHANGED app_vars

\* A caller evaluates descriptor.name().
name(descriptor) ==
    /\ ~panicked
    /\ last' = [NoOp EXCEPT !.op = "name", !.descriptor = descriptor,
                            !.name = RenderPipelineDescriptor_name(descriptor)]
    /\ UNCHANGED <<render, compute, path_mapping, file_watcher, files, events,
                   panicked, makeCount, origin, failed, runner>>
    /\ UNCHANGED app_vars

\* The readers run against an arena a caller fills and reloads itself, from
\* files that are edited to sources that compile.
ReadNext ==
    \/ \E p \in Paths, d \in RenderDescs : process_render_pipeline_from_path(p, d)
    \/ \E p \in Paths, d \in ComputeDescs : process_compute_pipeline_from_path(p, d)
    \/ \E p \in Paths : file_change(p, [valid |-> TRUE, entry_points |-> EntryPoints])
    \/ \E p \in Paths : reload_pipelines(p)
    \/ \E h \in TaggedKeys : Arena_get_pipeline(h)
    \/ \E h \in TaggedKeys : Arena_get_descriptor(h)

ReadSpec == Init /\ [][ReadNext]_vars

\* name() is a function of the descriptor alone: it is applied to the
\* descriptors a caller compiles and to one it has not registered.
NameNext ==
    \/ \E p \in Paths, d \in RenderDescs : process_render_pipeline_from_path(p, d)
    \/ \E p \in Paths, d \in ComputeDescs : process_compute_pipeline_from_path(p, d)
    \/ \E d \in NameInputs : name(d)

NameSpec == Init /\ [][NameNext]_vars

\* ------------------------------------------------------------ event loop
\* The same program at the grain of the event-loop thread. winit calls the
\* callbacks of AppRunner one after the other on that thread
\* (event_loop.run_app(&mut app_runner)); runner.pc is the callback the
\* thread is in. The watcher runs on a thread of its own and holds only the
\* EventLoopProxy, so file_change can happen at any pc.

\* Variant: the handler hands the replay to a worker and returns.
user_event_spawned(path) ==
    /\ ~panicked
    /\ runner.pc = "idle"
    /\ runner.todo = <<>>
    /\ path \in events
    /\ events' = events \ {path}
    /\ LET module == create_shader_module_with_path(path)
       IN /\ failed' = IF module = CompileError THEN failed \cup {path} ELSE failed
          /\ panicked' = (module # CompileError /\ path \notin DOMAIN path_mapping)
          /\ runner' = IF module = CompileError \/ path \notin DOMAIN path_mapping
                       THEN runner
                       ELSE [runner EXCEPT !.todo = path_mapping[path],
                                           !.module = module]
          /\ last' = [NoOp EXCEPT !.op = "user_event", !.path = path,
                                  !.module = module, !.ok = (module # CompileError),
                                  !.compiles = 1]
    /\ UNCHANGED <<render, compute, path_mapping, file_watcher, files, makeCount, origin>>
    /\ UNCHANGED app_vars

\* AppRunner::user_event -> App::handle_events -> reload_pipelines, up to
\* the head of the for loop: take the event, compile the module once and,
\* if it compiled, start the loop over path_mapping[path].
user_event(path) ==
    /\ ~panicked
    /\ runner.pc = "idle"
    /\ path \in events
    /\ events' = events \ {path}
    /\ LET module == create_shader_module_with_path(path)
       IN /\ failed' = IF module = CompileError THEN failed \cup {path} ELSE failed
          /\ panicked' = (module # CompileError /\ path \notin DOMAIN path_mapping)
          /\ runner' = IF module = CompileError \/ path \notin DOMAIN path_mapping
                       THEN runner
                       ELSE [runner EXCEPT !.pc = "user_event",
                                           !.todo = path_mapping[path],
                                           !.module = module]
          /\ last' = [NoOp EXCEPT !.op = "user_event", !.path = path,
                                  !.module = module, !.ok = (module # CompileError),
                                  !.compiles = 1]
    /\ UNCHANGED <<render, compute, path_mapping, file_watcher, files, makeCount, origin>>
    /\ UNCHANGED app_vars

\* One iteration of the for loop of Arena::reload_pipelines; after the last
\* one the handler returns to the event loop.
reload_step ==
    /\ ~panicked
    /\ runner.todo # <<>>
    /\ LET handle == Head(runner.todo)
       IN IF reload_panics(TheArena, runner.module, handle)
          THEN /\ panicked' = TRUE
               /\ UNCHANGED <<render, compute, path_mapping, file_watcher, runner>>
               /\ last' = [NoOp EXCEPT !.op = "reload_step", !.module = runner.module,
                                       !.ok = FALSE, !.processed = 1]
          ELSE /\ SetArena(reload_one(TheArena, runner.module, handle))
               /\ panicked' = FALSE
               /\ runner' = [runner EXCEPT
                               !.todo = Tail(@),
                               !.pc = IF @ = "user_event" /\ Tail(runner.todo) = <<>>
                                      THEN "idle" ELSE @]
               /\ last' = [NoOp EXCEPT !.op = "reload_step", !.module = runner.module,
                                       !.processed = 1]
    /\ UNCHANGED <<files, events, makeCount, origin, failed>>
    /\ UNCHANGED app_vars

\* AppRunner::window_event, WindowEvent::RedrawRequested: App::render starts
\* recording the frame with the pipelines the handles resolve to.
redraw_requested ==
    /\ ~panicked
    /\ runner.pc = "idle"
    /\ runner' = [runner EXCEPT !.pc = "redraw",
                                !.frame = <<render.pipelines, compute.pipelines>>]
    /\ last' = [NoOp EXCEPT !.op = "redraw"]
    /\ UNCHANGED <<render, compute, path_mapping, file_watcher, files, events,
                   panicked, makeCount, origin, failed>>
    /\ UNCHANGED app_vars

\* The frame is submitted and window_event returns.
redraw_return ==
    /\ ~panicked
    /\ runner.pc = "redraw"
    /\ runner' = [runner EXCEPT !.pc = "idle", !.frame = <<>>]
    /\ last' = [NoOp EXCEPT !.op = "redraw_return"]
    /\ UNCHANGED <<render, compute, path_mapping, file_watcher, files, events,
                   panicked, makeCount, origin, failed>>
    /\ UNCHANGED app_vars

\* The compile calls are made inside callbacks (E::init in resumed), so
\* they too happen only when the thread is in no other callback.
LoopNext ==
    \/ \E p \in Paths, d \in RenderDescs :
         runner.pc = "idle" /\ process_render_pipeline_from_path(p, d)
    \/ \E p \in Paths, d \in ComputeDescs :
         runner.pc = "idle" /\ process_compute_pipeline_from_path(p, d)
    \/ \E p \in Paths, c \in Contents : file_change(p, c)
    \/ \E p \in Paths : user_event(p)
    \/ reload_step
    \/ redraw_requested
    \/ redraw_return

LoopSpec == Init /\ [][LoopNext]_vars

\* ------------------------------------------------------------- AppRunner
\* run(): the AppRunner as constructed, before the event loop starts. The
\* watcher holds the event-loop proxy and has not been handed to the App.
AppRunner_new ==
    [RunnerIdle EXCEPT !.file_watcher = TRUE, !.window = FALSE, !.renderer = FALSE]

RunnerInit ==
    /\ render = NewArena
    /\ compute = NewArena
    /\ path_mapping = EmptyMap
    /\ file_watcher = {}
    /\ files = [p \in Paths |->
                  [ver |-> 1, valid |-> TRUE, entry_points |-> EntryPoints]]
    /\ events = {}
    /\ panicked = FALSE
    /\ makeCount = [d \in AllDescs |-> 0]
    /\ origin = EmptyMap
    /\ failed = {}
    /\ runner = AppRunner_new
    /\ last = NoOp
    /\ AppInit

\* ApplicationHandler::resumed. file_watcher.take().expect(..) panics when
\* the watcher has been taken already; App::new, E::init and setup_scene are
\* unwrapped with expect as well, so their failure (created == FALSE) unwinds
\* after the watcher was taken and before renderer and window are set.
resumed(created) ==
    /\ ~panicked
    /\ IF ~runner.file_watcher
       THEN /\ panicked' = TRUE
            /\ runner' = runner
       ELSE IF ~created
       THEN /\ panicked' = TRUE
            /\ runner' = [runner EXCEPT !.file_watcher = FALSE]
       ELSE /\ panicked' = FALSE
            /\ runner' = [runner EXCEPT !.file_watcher = FALSE,
                                         !.renderer = TRUE, !.window = TRUE]
    /\ last' = [NoOp EXCEPT !.op = "resumed", !.ok = ~panicked']
    /\ UNCHANGED <<render, compute, path_mapping, file_watcher, files, events,
                   makeCount, origin, failed>>
    /\ UNCHANGED app_vars

\* The proxy created in run() is live before resumed: a changed-path event
\* is posted to the event loop while the renderer does not exist yet.
early_event(path) ==
    /\ ~panicked
    /\ ~runner.renderer
    /\ path \notin events
    /\ events' = events \cup {path}
    /\ last' = [NoOp EXCEPT !.op = "early_event", !.path = path]
    /\ UNCHANGED <<render, compute, path_mapping, file_watcher, files, panicked,
                   makeCount, origin, failed, runner>>
    /\ UNCHANGED app_vars

\* Variant: the renderer is unwrapped instead of tested.
AppRunner_user_event_unwrap(path) ==
    /\ ~panicked
    /\ path \in events
    /\ IF runner.renderer
       THEN handle_events(path)
       ELSE /\ events' = events \ {path}
            /\ panicked' = TRUE
            /\ last' = [NoOp EXCEPT !.op = "user_event", !.path = path, !.ok = FALSE]
            /\ UNCHANGED <<render, compute, path_mapping, file_watcher, files,
                           makeCount, origin, failed, runner>>
            /\ UNCHANGED app_vars

\* ApplicationHandler::user_event: the event loop delivers one changed path.
\* Without a renderer the callback returns at once and the event is gone;
\* with one it is App::handle_events.
AppRunner_user_event(path) ==
    /\ ~panicked
    /\ path \in events
    /\ IF runner.renderer
       THEN handle_events(path)
       ELSE /\ events' = events \ {path}
            /\ last' = [NoOp EXCEPT !.op = "user_event", !.path = path, !.ok = FALSE]
            /\ UNCHANGED <<render, compute, path_mapping, file_watcher, files,
                           panicked, makeCount, origin, failed, runner>>
            /\ UNCHANGED app_vars

\* The runner from its construction on. Pipelines are compiled by E::init
\* and later callbacks, which need the App.
RunnerNext ==
    \/ \E created \in BOOLEAN : resumed(created)
    \/ \E p \in Paths : early_event(p)
    \/ \E p \in Paths : AppRunner_user_event(p)
    \/ \E p \in Paths, d \in RenderDescs :
         runner.renderer /\ process_render_pipeline_from_path(p, d)
    \/ \E p \in Paths, d \in ComputeDescs :
         runner.renderer /\ process_compute_pipeline_from_path(p, d)
    \/ \E p \in Paths :
         file_change(p, [valid |-> TRUE, entry_points |-> EntryPoints])

RunnerSpec == RunnerInit /\ [][RunnerNext]_vars

\* ------------------------------------------------- keys, recorder, resize
\* The runner after resumed, driven by key presses and window resizes. A
\* fixed step of new_events with a renderer: AppState::update, then
\* App::update with the actions it returned. f3 and f4 are what
\* was_just_pressed answers in this step.
fixed_update(f3, f4) ==
    /\ history.updates < MaxUpdates
    /\ LET r == AppState_update(state, f3, f4)
           a == App_update(app, r.actions)
       IN /\ state' = r.state
          /\ actions' = r.actions
          /\ app' = a.app
          /\ history' = [history EXCEPT !.updates = @ + 1,
                                        !.presses = @ + (IF f4 THEN 1 ELSE 0),
                                        !.misapplied = a.misapplied,
                                        !.op = "update"]
    /\ UNCHANGED arena_vars
    /\ UNCHANGED <<accumulated_time, layout, mesh_pool, material_pool>>

\* window_event(WindowEvent::Resized): a size with a zero side is ignored,
\* any other is handed to App::resize.
window_event_resized(size) ==
    /\ app' = IF size.width # 0 /\ size.height # 0
              THEN App_resize(app, size.width, size.height)
              ELSE app
    /\ history' = [history EXCEPT !.misapplied = 0, !.op = "resize"]
    /\ UNCHANGED arena_vars
    /\ UNCHANGED <<state, actions, accumulated_time, layout, mesh_pool, material_pool>>

\* The frame counter starts at 0; a long run brings it to any u64, the
\* last value before the wrap included.
StateInit ==
    /\ ArenaInit
    /\ state \in {AppState_new, [AppState_new EXCEPT !.frame_count = U64MaxMinus1]}
    /\ app = App_new
    /\ actions = <<>>
    /\ accumulated_time = f64_zero
    /\ layout = NoLayout
    /\ mesh_pool = MeshPool_new
    /\ material_pool = MaterialPool_new
    /\ history = NoHistory

StateNext ==
    \/ \E f3 \in BOOLEAN, f4 \in BOOLEAN : fixed_update(f3, f4)
    \/ \E size \in Sizes : window_event_resized(size)

StateSpec == StateInit /\ [][StateNext]_vars

\* ------------------------------------------------------ the fixed timestep
\* Variant: the frame time is not clamped.
frame_time_unclamped(elapsed) == elapsed

\* new_events: duration_since(current_instant).as_secs_f64().min(MAX_FRAME_TIME)
frame_time(elapsed) == f64_min(elapsed, MAX_FRAME_TIME)

\* The while loop of new_events, with no key down: from the accumulated
\* time acc and the state s, having run steps updates so far.
RECURSIVE fixed_steps(_, _, _, _)
fixed_steps(acc, s, steps, acts) ==
    IF f64_ge(acc, FIXED_TIME_STEP)
    THEN LET r == AppState_update(s, FALSE, FALSE)
         IN fixed_steps(f64_sub(acc, FIXED_TIME_STEP), r.state, steps + 1,
                        acts \o r.actions)
    ELSE [accumulated_time |-> acc, state |-> s, steps |-> steps, actions |-> acts]

\* ApplicationHandler::new_events, ms milliseconds after the previous one.
new_events(ms) ==
    /\ history.calls < MaxFrames
    /\ LET r == fixed_steps(f64_add(accumulated_time, frame_time(as_secs_f64(ms))),
                            state, 0, <<>>)
       IN /\ accumulated_time' = r.accumulated_time
          /\ state' = r.state
          /\ actions' = r.actions
          /\ app' = App_update(app, r.actions).app
          /\ history' = [history EXCEPT !.calls = @ + 1, !.steps = r.steps,
                                        !.updates = @ + r.steps,
                                        !.op = "new_events"]
    /\ UNCHANGED arena_vars
    /\ UNCHANGED <<layout, mesh_pool, material_pool>>

TimeNext == \E ms \in ElapsedMs : new_events(ms)

TimeSpec == AppRunnerInit /\ [][TimeNext]_vars

\* ------------------------------------------------ building a vertex layout
FormatLists == UNION {[1..n -> VertexFormats] : n \in 0..MaxFormats}

\* A caller about to build a layout from a step mode and a format list.
LayoutInit ==
    /\ ArenaInit
    /\ state = AppState_new
    /\ app = App_new
    /\ actions = <<>>
    /\ accumulated_time = f64_zero
    /\ layout \in {[step_mode |-> m, vertex_formats |-> f, result |-> None] :
                     m \in StepModes, f \in FormatLists}
    /\ mesh_pool = MeshPool_new
    /\ material_pool = MaterialPool_new
    /\ history = NoHistory

\* The call VertexBufferLayout::from_vertex_formats(step_mode, vertex_formats).
call_from_vertex_formats ==
    /\ layout.result = None
    /\ layout' = [layout EXCEPT !.result =
                    Some(from_vertex_formats(layout.step_mode, layout.vertex_formats))]
    /\ UNCHANGED arena_vars
    /\ UNCHANGED <<state, app, actions, accumulated_time, mesh_pool, material_pool,
                   history>>

LayoutNext == call_from_vertex_formats

LayoutSpec == LayoutInit /\ [][LayoutNext]_vars

\* ---------------------------------------------------- filling the pools
\* A scene adds a mesh.
add_mesh(mesh) ==
    /\ history.adds < MaxAdds
    /\ LET r == MeshPool_add(mesh_pool, mesh)
       IN /\ mesh_pool' = r.pool
          /\ history' = [history EXCEPT !.adds = @ + 1,
                                        !.meshes = Append(@, mesh),
                                        !.op = "MeshPool::add", !.id = r.id]
    /\ UNCHANGED arena_vars
    /\ UNCHANGED <<state, app, actions, accumulated_time, layout, material_pool>>

\* A scene adds a material.
add_material(material) ==
    /\ history.adds < MaxAdds
    /\ LET r == MaterialPool_add(material_pool, material)
       IN /\ material_pool' = r.pool
          /\ history' = [history EXCEPT !.adds = @ + 1,
                                        !.op = "MaterialPool::add", !.id = r.id]
    /\ UNCHANGED arena_vars
    /\ UNCHANGED <<state, app, actions, accumulated_time, layout, mesh_pool>>

PoolNext ==
    \/ \E mesh \in Meshes : add_mesh(mesh)
    \/ \E material \in Materials : add_material(material)

PoolSpec == AppRunnerInit /\ [][PoolNext]_vars

\* ---------------------------------------------------------------- helpers
IsRenderCompile(l) == l.op = "process_render_pipeline_from_path" /\ l.ok
IsComputeCompile(l) == l.op = "process_compute_pipeline_from_path" /\ l.ok
IsCompile(l) == IsRenderCompile(l) \/ IsComputeCompile(l)
IsReload(l) == l.op = "reload"

\* The tagged handle a compile call returned.
Returned(l) == IF IsRenderCompile(l) THEN Left(l.handle) ELSE Right(l.handle)

\* The tagged handles registered under a path.
Registered(mapping, p) ==
    IF p \in DOMAIN mapping
    THEN {mapping[p][i] : i \in 1..Len(mapping[p])}
    ELSE {}

\* The tagged handles of both tables.
LiveHandles ==
    {Left(h) : h \in DOMAIN render.pipelines} \cup {Right(h) : h \in DOMAIN compute.pipelines}

\* The object a table of the tag's kind gets from a descriptor and a module.
Materialized(tag, descriptor, module) ==
    [kind |-> IF tag = "Left" THEN "RenderPipeline" ELSE "ComputePipeline",
     descriptor |-> descriptor, module |-> module]

\* ------------------------------------------------------------------ C1
\* C1: two compile calls in a row with the same kind, path and descriptor
\* return the same handle; the second one makes no process() call and the
\* descriptor has been materialized exactly once in all.
C1_SameDescriptorSameHandle ==
    [][ (IsCompile(last) /\ IsCompile(last') /\ last'.op = last.op
           /\ last'.path = last.path /\ last'.descriptor = last.descriptor)
        => /\ last'.handle = last.handle
           /\ last'.processed = 0
           /\ makeCount'[last'.descriptor] = 1 ]_vars

\* A descriptor has been requested twice from one path: the two newest
\* registrations of the path are the same handle, materialized once.
C1_Witness ==
    /\ IsCompile(last) /\ last.hit
    /\ Len(path_mapping[last.path]) >= 2
    /\ LET l == path_mapping[last.path]
       IN l[Len(l)] = l[Len(l) - 1] /\ l[Len(l)] = Returned(last)
    /\ makeCount[last.descriptor] = 1

\* ------------------------------------------------------------------ C2
\* C2: after a reload that compiled, every handle registered under the path
\* is still a slot of its table, the caches still return the same handles,
\* and get_pipeline gives the object materialized from the handle's stored
\* descriptor and the module of this reload.
C2_ReloadSwapsInPlace ==
    [][ (IsReload(last') /\ last'.ok)
        => /\ render'.cached = render.cached
           /\ compute'.cached = compute.cached
           /\ \A h \in Registered(path_mapping, last'.path) :
                /\ h \in LiveHandles'
                /\ get_pipeline(h)' = Materialized(h.tag, get_descriptor(h), last'.module) ]_vars

\* A reload replaced an object built from an older version of the file.
C2_Witness ==
    /\ IsReload(last) /\ last.ok /\ last.processed >= 1
    /\ last.module.ver >= 2
    /\ \E h \in Registered(path_mapping, last.path) :
         /\ h.tag = "Left"
         /\ get_pipeline(h).module = last.module
         /\ origin[h] = last.path

\* ------------------------------------------------------------------ C3
\* C3: a reload whose module fails to compile changes no slot of either
\* table: pipelines, descriptors and caches are what they were.
C3_FailedReloadKeepsPipelines ==
    [][ (IsReload(last') /\ last'.module = CompileError)
        => /\ render' = render
           /\ compute' = compute
           /\ \A h \in Registered(path_mapping, last'.path) :
                get_pipeline(h)' = get_pipeline(h) ]_vars

\* A failed reload of a path that has a registered pipeline.
C3_Witness ==
    /\ IsReload(last) /\ last.module = CompileError /\ ~last.ok
    /\ Registered(path_mapping, last.path) # {}
    /\ \E h \in Registered(path_mapping, last.path) :
         get_pipeline(h).module.ver < files[last.path].ver

\* ------------------------------------------------------------------ C4
\* C4: in each table no two handles store equal descriptors, and the compile
\* path has called process() at most once for each descriptor value.
C4_OneHandlePerDescriptor ==
    /\ \A h1, h2 \in DOMAIN render.descriptors :
         render.descriptors[h1] = render.descriptors[h2] => h1 = h2
    /\ \A h1, h2 \in DOMAIN compute.descriptors :
         compute.descriptors[h1] = compute.descriptors[h2] => h1 = h2
    /\ Cardinality(DOMAIN render.pipelines) = Cardinality(DOMAIN render.cached)
    /\ Cardinality(DOMAIN compute.pipelines) = Cardinality(DOMAIN compute.cached)
    /\ \A d \in AllDescs : makeCount[d] <= 1

\* Two compile calls for one compute descriptor, then a reload.
C4_Witness ==
    /\ IsReload(last) /\ last.ok /\ last.processed = 2
    /\ TotalRegistered = 2
    /\ Len(compute.pipelines) = 1
    /\ Len(render.pipelines) = 0

\* ------------------------------------------------------------------ C5
\* C5: a compile call for a descriptor that is already cached returns the
\* cached handle and makes no process() call, whatever path it names; no
\* compiled object changes.
C5_CacheHitSkipsBackend ==
    [][ /\ (IsRenderCompile(last') /\ last'.descriptor \in DOMAIN render.cached)
           => /\ last'.handle = render.cached[last'.descriptor]
              /\ last'.processed = 0
              /\ makeCount' = makeCount
              /\ render'.pipelines = render.pipelines
        /\ (IsComputeCompile(last') /\ last'.descriptor \in DOMAIN compute.cached)
           => /\ last'.handle = compute.cached[last'.descriptor]
              /\ last'.processed = 0
              /\ makeCount' = makeCount
              /\ compute'.pipelines = compute.pipelines ]_vars

\* A cache hit from a path other than the one the handle was created from.
C5_Witness ==
    /\ IsRenderCompile(last) /\ last.hit
    /\ origin[Left(last.handle)] # last.path
    /\ get_pipeline(Left(last.handle)).module.path # last.path


\* The handle list of a path, empty for a path without an entry.
HandleList(mapping, p) == IF p \in DOMAIN mapping THEN mapping[p] ELSE <<>>

\* A compile step that found its descriptor in the cache.
IsCacheHit ==
    \/ IsRenderCompile(last') /\ last'.descriptor \in DOMAIN render.cached
    \/ IsComputeCompile(last') /\ last'.descriptor \in DOMAIN compute.cached

\* A cache hit that names a path other than the one the handle was created from.
IsCrossPathHit == IsCacheHit /\ origin[Returned(last')] # last'.path

C8_TwoDescriptorsOnePath ==
    [][ /\ (IsCompile(last') /\ ~IsCacheHit)
           => /\ Returned(last') \notin LiveHandles
              /\ Returned(last') \in LiveHandles'
              /\ path_mapping'[last'.path] =
                   Append(HandleList(path_mapping, last'.path), Returned(last'))
              /\ \A h \in {Returned(last')} : get_descriptor(h)' = last'.descriptor
        /\ (IsReload(last') /\ last'.ok)
           => \A h1, h2 \in Registered(path_mapping, last'.path) :
                (h1 # h2 /\ h1.tag = h2.tag)
                => /\ get_pipeline(h1)' = Materialized(h1.tag, get_descriptor(h1), last'.module)
                   /\ get_pipeline(h2)' = Materialized(h2.tag, get_descriptor(h2), last'.module)
                   /\ get_pipeline(h1)' # get_pipeline(h2)' ]_vars

\* Two render descriptors compiled from one path, both rebuilt by a reload.
C8_Witness ==
    /\ IsReload(last) /\ last.ok /\ last.processed = 2
    /\ last.module.ver >= 2
    /\ path_mapping[last.path] = <<Left(1), Left(2)>>
    /\ get_descriptor(Left(1)) # get_descriptor(Left(2))
    /\ get_pipeline(Left(1)).module = last.module
    /\ get_pipeline(Left(2)).module = last.module

\* ------------------------------------------------------------------ C9
\* C9: a reload, failed or not, leaves the set of handles of the render
\* table and of the compute table as it was.
C9_ReloadCreatesNoSlot ==
    [][ IsReload(last')
        => /\ DOMAIN render'.pipelines = DOMAIN render.pipelines
           /\ DOMAIN compute'.pipelines = DOMAIN compute.pipelines
           /\ DOMAIN render'.descriptors = DOMAIN render.descriptors
           /\ DOMAIN compute'.descriptors = DOMAIN compute.descriptors ]_vars

\* After the reload of a path with two pipelines exactly two pipelines exist.
C9_Witness ==
    /\ IsReload(last) /\ last.ok /\ last.processed = 2
    /\ Cardinality(Registered(path_mapping, last.path)) = 2
    /\ LiveHandles = Registered(path_mapping, last.path)
    /\ \A h \in LiveHandles : get_pipeline(h).module = last.module

\* ----------------------------------------------------------------- C10
\* C10: a render handle resolves to a render pipeline of the render table
\* and a compute handle to a compute pipeline of the compute table, also
\* when both have the same index; a render compile call leaves the compute
\* table unchanged and a compute compile call the render table; a reload
\* changes in a table only the slots whose handle of that table's tag is
\* registered under the path.
C10_DisjointNamespaces ==
    [][ /\ \A h \in LiveHandles' :
             /\ h.tag = "Left" => /\ get_pipeline(h)'.kind = "RenderPipeline"
                                  /\ get_descriptor(h)' \in RenderDescs
             /\ h.tag = "Right" => /\ get_pipeline(h)'.kind = "ComputePipeline"
                                   /\ get_descriptor(h)' \in ComputeDescs
        /\ IsRenderCompile(last') => compute' = compute
        /\ IsComputeCompile(last') => render' = render
        /\ IsReload(last')
           => \A h \in LiveHandles :
                h \notin Registered(path_mapping, last'.path)
                => get_pipeline(h)' = get_pipeline(h) ]_vars

\* Render slot 1 and compute slot 1 both exist; a reload of a path that
\* holds only the compute handle rebuilt it and left the render one alone.
C10_Witness ==
    /\ IsReload(last) /\ last.ok
    /\ Left(1) \in LiveHandles /\ Right(1) \in LiveHandles
    /\ Registered(path_mapping, last.path) = {Right(1)}
    /\ get_pipeline(Right(1)).module = last.module
    /\ get_pipeline(Left(1)).module # last.module
    /\ get_pipeline(Left(1)).kind = "RenderPipeline"


\* ----------------------------------------------------------------- C11
\* A tagged handle resolves: its table has a compiled object and a stored
\* descriptor for it.
Resolvable(h) ==
    IF h.tag = "Left"
    THEN h.handle \in DOMAIN render.pipelines /\ h.handle \in DOMAIN render.descriptors
    ELSE h.handle \in DOMAIN compute.pipelines /\ h.handle \in DOMAIN compute.descriptors

\* C11: the handle a compile call returns is one the arena created, and
\* every handle the arena ever created resolves (get_pipeline and
\* get_descriptor) after every later step, compile or reload, failed or not.
C11_HandlesStayValid ==
    [][ /\ IsCompile(last') => Returned(last') \in DOMAIN origin'
        /\ DOMAIN origin \subseteq DOMAIN origin'
        /\ \A h \in DOMAIN origin' : Resolvable(h)' ]_vars

\* A handle is still resolvable after a failed reload of its path, a
\* successful reload of it and a further compile call.
C11_Witness ==
    /\ IsCompile(last) /\ ~last.hit
    /\ \E h \in DOMAIN origin :
         /\ h # Returned(last)
         /\ Resolvable(h)
         /\ origin[h] \in failed
         /\ get_pipeline(h).module.ver = 3
         /\ last.path # origin[h]

\* ----------------------------------------------------------------- C12
\* C12: the handle a cache miss produces differs from every handle the
\* table issued before, and two different descriptors of one kind never
\* map to the same handle.
C12_MissHandleIsFresh ==
    [][ /\ (IsCompile(last') /\ ~IsCacheHit)
           => /\ Returned(last') \notin DOMAIN origin
              /\ Returned(last') \notin LiveHandles
              /\ \A p \in DOMAIN path_mapping :
                   Returned(last') \notin Registered(path_mapping, p)
        /\ \A d1, d2 \in DOMAIN render'.cached :
             d1 # d2 => render'.cached[d1] # render'.cached[d2]
        /\ \A d1, d2 \in DOMAIN compute'.cached :
             d1 # d2 => compute'.cached[d1] # compute'.cached[d2] ]_vars

\* Two compute descriptors were compiled: two different handles.
C12_Witness ==
    /\ IsComputeCompile(last) /\ ~last.hit
    /\ DOMAIN compute.cached = ComputeDescs
    /\ Cardinality({compute.cached[d] : d \in ComputeDescs}) = 2
    /\ Cardinality(DOMAIN origin) = 2

\* ----------------------------------------------------------------- C13
\* C13: no step changes the descriptor stored for a handle; the descriptor
\* stored by the miss is the one the call was given; a reload builds each
\* object from the descriptor stored for its handle.
C13_DescriptorIsStable ==
    [][ /\ \A h \in LiveHandles : get_descriptor(h)' = get_descriptor(h)
        /\ (IsCompile(last') /\ ~IsCacheHit)
           => \A h \in {Returned(last')} : get_descriptor(h)' = last'.descriptor
        /\ IsReload(last')
           => \A h \in Registered(path_mapping, last'.path) :
                get_pipeline(h)'.descriptor = get_descriptor(h) ]_vars

\* A reload rebuilt two compute pipelines, each still with its own descriptor.
C13_Witness ==
    /\ IsReload(last) /\ last.ok /\ last.processed >= 2
    /\ Right(1) \in Registered(path_mapping, last.path)
    /\ Right(2) \in Registered(path_mapping, last.path)
    /\ get_descriptor(Right(1)) # get_descriptor(Right(2))
    /\ get_pipeline(Right(1)) = Materialized("Right", get_descriptor(Right(1)), last.module)
    /\ get_pipeline(Right(2)) = Materialized("Right", get_descriptor(Right(2)), last.module)
    /\ last.module.ver >= 2


\* ----------------------------------------------------------------- C14
\* A compile call whose module failed to compile.
IsFailedCompile(l) ==
    /\ l.op \in {"process_render_pipeline_from_path", "process_compute_pipeline_from_path"}
    /\ l.module = CompileError

C15_Original ==
    [][ (IsReload(last') /\ last'.module # CompileError
           /\ last'.path \in DOMAIN path_mapping)
        => /\ ~panicked'
           /\ \A h \in Registered(path_mapping, last'.path) :
                ~reload_panics(TheArena, last'.module, h)
                => get_pipeline(h)' = Materialized(h.tag, get_descriptor(h), last'.module) ]_vars

\* ----------------------------------------------------------------- C16
\* A reload has replaced the objects of some handles of the path and not
\* yet those of the others.
ReloadInProgress == runner.todo # <<>>

\* C16: while a frame is being recorded no reload is in progress and the
\* pipelines are the ones the frame started with; a step of the watcher
\* changes nothing of the arena; and from inside the handler of a change
\* event the thread enters no other callback before the handler returns.
C16_FrameSeesNoHalfSwap ==
    [][ /\ runner'.pc = "redraw"
           => /\ ~ReloadInProgress'
              /\ runner'.frame = <<render'.pipelines, compute'.pipelines>>
        /\ last'.op = "file_change"
           => /\ render' = render /\ compute' = compute
              /\ path_mapping' = path_mapping /\ file_watcher' = file_watcher
              /\ runner' = runner
        /\ runner.pc = "user_event" => runner'.pc \in {"user_event", "idle"}
        /\ ReloadInProgress' => runner'.pc = "user_event" ]_vars

\* A frame is being recorded after a reload that replaced two handles one
\* after the other, and the watcher has posted a new event meanwhile.
C16_Witness ==
    /\ runner.pc = "redraw"
    /\ last.op = "file_change" /\ events # {}
    /\ \E p \in DOMAIN path_mapping :
         /\ Cardinality(Registered(path_mapping, p)) = 2
         /\ \A h \in Registered(path_mapping, p) : get_pipeline(h).module.ver = 2

\* ----------------------------------------------------------------- C17
\* C17: a reload that fails to compile leaves the path watched and
\* registered, the process running and every pipeline as it was; a later
\* reload of that path that succeeds gives every handle registered under
\* the path the object materialized from the new module.
C17_FailedReloadKeepsHotReload ==
    [][ /\ (IsReload(last') /\ last'.module = CompileError)
           => /\ ~panicked'
              /\ last'.path \in failed'
              /\ last'.path \in file_watcher'
              /\ path_mapping' = path_mapping
              /\ last'.path \in DOMAIN path_mapping'
              /\ render'.pipelines = render.pipelines
              /\ compute'.pipelines = compute.pipelines
        /\ (IsReload(last') /\ last'.ok /\ last'.path \in failed)
           => \A h \in Registered(path_mapping, last'.path) :
                get_pipeline(h)' = Materialized(h.tag, get_descriptor(h), last'.module) ]_vars

\* A path whose reload failed on version 2 was reloaded from version 3.
C17_Witness ==
    /\ IsReload(last) /\ last.ok /\ last.processed >= 1
    /\ last.path \in failed
    /\ last.module.ver = 3
    /\ \A h \in Registered(path_mapping, last.path) : get_pipeline(h).module = last.module

\* ----------------------------------------------------------------- C18
\* The number of entries of a handle list that repeat an earlier entry.
Duplicates(l) ==
    Cardinality({i \in 1..Len(l) : \E j \in 1..(i - 1) : l[j] = l[i]})

C19_OneModulePerReload ==
    [][ (IsReload(last') /\ last'.ok)
        => /\ last'.compiles = 1
           /\ last'.processed = Len(path_mapping[last'.path])
           /\ last'.module = create_shader_module_with_path(last'.path)
           /\ \A h \in Registered(path_mapping, last'.path) :
                get_pipeline(h)'.module = last'.module ]_vars

\* A reload of a path with a render and a compute handle: one compile,
\* two process() calls, both objects built from the one new module.
C19_Witness ==
    /\ IsReload(last) /\ last.ok /\ last.processed = 2 /\ last.compiles = 1
    /\ last.module.ver >= 2
    /\ \E h1, h2 \in Registered(path_mapping, last.path) :
         /\ h1.tag = "Left" /\ h2.tag = "Right"
         /\ get_pipeline(h1).module = last.module
         /\ get_pipeline(h2).module = last.module

\* ----------------------------------------------------------------- C20
\* C20: a reload of a path that no compile call registered panics, and it
\* replaces no pipeline of either table.
C20_UnregisteredReloadIsFatal ==
    [][ (IsReload(last') /\ last'.module # CompileError
           /\ last'.path \notin DOMAIN path_mapping)
        => /\ panicked'
           /\ ~last'.ok /\ last'.processed = 0
           /\ render' = render
           /\ compute' = compute
           /\ path_mapping' = path_mapping ]_vars

\* The arena holds a pipeline of another path when the reload of an
\* unregistered path aborts the process.
C20_Witness ==
    /\ panicked /\ IsReload(last) /\ ~last.ok
    /\ last.path \notin DOMAIN path_mapping
    /\ LiveHandles # {}


\* ----------------------------------------------------------------- C21
\* A call of one of the two getters.
IsGetter(l) == l.op \in {"get_pipeline", "get_descriptor"}

\* The tagged handle a getter was called with.
Asked(l) == [tag |-> l.tag, handle |-> l.handle]

\* C21: a getter called with a handle its table never issued (the null key
\* included) panics and returns nothing; a getter that returns, returns the
\* object or the descriptor of the handle it was called with.
C21_InvalidHandleIsFatal ==
    [][ IsGetter(last')
        => IF Asked(last') \in LiveHandles
           THEN /\ last'.ok /\ ~panicked'
                /\ last'.descriptor = get_descriptor(Asked(last'))
                /\ last'.op = "get_pipeline"
                   => last'.module = get_pipeline(Asked(last')).module
           ELSE /\ panicked' /\ ~last'.ok
                /\ last'.descriptor = NoDesc /\ last'.module = NoModule ]_vars

\* get_pipeline was called with the null key on a table that holds a
\* pipeline: the call panicked instead of returning that pipeline.
C21_Witness ==
    /\ panicked /\ IsGetter(last) /\ ~last.ok
    /\ last.op = "get_pipeline"
    /\ last.handle = 0
    /\ TableOf(Asked(last)).pipelines # <<>>

\* ----------------------------------------------------------------- C22
\* C22: a successful compile call, cache hit or miss, leaves its path
\* watched and changes the watched set by watch_file alone; watching a path
\* that is already watched changes nothing, so watching twice equals
\* watching once.
C22_CompileWatchesPath ==
    [][ IsCompile(last')
        => /\ last'.path \in file_watcher'
           /\ file_watcher' = watch_file(file_watcher, last'.path)
           /\ last'.path \in file_watcher => file_watcher' = file_watcher
           /\ watch_file(file_watcher', last'.path) = file_watcher' ]_vars

\* A cache hit named a path that was already watched, while the other path
\* is not watched.
C22_Witness ==
    /\ IsCompile(last) /\ last.hit
    /\ Len(path_mapping[last.path]) = 2
    /\ file_watcher = {last.path}

\* ----------------------------------------------------------------- C23
\* C23: no step removes or remaps an entry of a dedup cache: a descriptor
\* mapped to a handle is mapped to the same handle after every step.
C23_CacheOnlyGrows ==
    [][ /\ \A d \in DOMAIN render.cached :
             d \in DOMAIN render.cached' /\ render.cached'[d] = render.cached[d]
        /\ \A d \in DOMAIN compute.cached :
             d \in DOMAIN compute.cached' /\ compute.cached'[d] = compute.cached[d] ]_vars

\* The compute cache holds two descriptors after a second miss, a reload
\* and a failed reload.
C23_Witness ==
    /\ Cardinality(DOMAIN compute.cached) = 2
    /\ IsReload(last) /\ last.module = CompileError
    /\ \E d \in DOMAIN compute.cached : compute.pipelines[compute.cached[d]].module.ver = 2

\* ----------------------------------------------------------------- C24
\* An operation that may write the arena: a compile call or a reload.
IsMutator(l) ==
    \/ l.op \in {"process_render_pipeline_from_path", "process_compute_pipeline_from_path"}
    \/ IsReload(l)

\* C24: a getter call, whether it returns or panics, leaves both tables
\* (objects, descriptors, caches), the path registry and the watched set as
\* they were; a step that changes any of them is a compile call or a
\* reload.
C24_GettersArePure ==
    [][ /\ IsGetter(last')
           => /\ render' = render /\ compute' = compute
              /\ path_mapping' = path_mapping /\ file_watcher' = file_watcher
        /\ (render' # render \/ compute' # compute \/ path_mapping' # path_mapping)
           => IsMutator(last') ]_vars

\* get_descriptor returned the descriptor of the second of two live
\* handles.
C24_Witness ==
    /\ last.op = "get_descriptor" /\ last.ok /\ ~panicked
    /\ Cardinality(LiveHandles) = 2
    /\ last.handle = 2
    /\ last.descriptor = get_descriptor(Asked(last))

\* ----------------------------------------------------------------- C25
\* The cache of the kind a compile call addresses.
CacheOf(l) == IF IsRenderCompile(l) THEN render.cached ELSE compute.cached

\* Two descriptors equal in every field except the label.
DifferInLabelOnly(d1, d2) ==
    d1.label # d2.label /\ d1.entry_point = d2.entry_point

\* C25: a compile call whose descriptor differs only in the label from a
\* cached descriptor of the same kind does not hit that entry: the handle
\* it returns is not that descriptor's, and when its own descriptor is not
\* cached either it is a miss with one process() call, after which each of
\* the two descriptors has had one process() call of its own.
C25_LabelIsPartOfKey ==
    [][ IsCompile(last')
        => \A d2 \in DOMAIN CacheOf(last') :
             DifferInLabelOnly(last'.descriptor, d2)
             => /\ last'.handle # CacheOf(last')[d2]
                /\ last'.descriptor \notin DOMAIN CacheOf(last')
                   => /\ ~last'.hit /\ last'.processed = 1
                      /\ makeCount'[last'.descriptor] = 1
                      /\ makeCount'[d2] = 1 ]_vars

\* "Shading" was compiled after "Depth Prepass" from the same file: two
\* handles, one process() call each.
C25_Witness ==
    /\ IsRenderCompile(last) /\ ~last.hit
    /\ last.descriptor.label = Some("Shading")
    /\ last.handle = 2
    /\ \E d2 \in DOMAIN render.cached :
         /\ DifferInLabelOnly(last.descriptor, d2)
         /\ render.cached[d2] = 1
         /\ origin[Left(1)] = last.path
         /\ makeCount[d2] = 1 /\ makeCount[last.descriptor] = 1

\* ----------------------------------------------------------------- C26
\* The labels of the descriptors name() is applied to.
Labels == {"Depth Prepass", "Shading"}

\* C26: name() returns the label of a descriptor whose label is set and
\* "Render Pipeline" for a descriptor whose label is unset.
C26_NameFallsBackToGeneric ==
    [][ last'.op = "name"
        => /\ last'.descriptor.label = None => last'.name = "Render Pipeline"
           /\ \A x \in Labels :
                last'.descriptor.label = Some(x) => last'.name = x ]_vars

\* name() was applied to the descriptor without a label while a labelled
\* descriptor is in the cache.
C26_Witness ==
    /\ last.op = "name"
    /\ last.descriptor.label = None
    /\ last.name = "Render Pipeline"
    /\ DOMAIN render.cached # {}

\* ----------------------------------------------------------------- C27
\* C27: a reload, whether it succeeds, fails to compile or panics, leaves
\* the object of every handle not registered under its path, every stored
\* descriptor, both caches, the path registry and the watched set as they
\* were.
C27_ReloadTouchesOnlyItsPath ==
    [][ IsReload(last')
        => /\ \A h \in LiveHandles :
                h \notin Registered(path_mapping, last'.path)
                => get_pipeline(h)' = get_pipeline(h)
           /\ DOMAIN render.pipelines' = DOMAIN render.pipelines
           /\ DOMAIN compute.pipelines' = DOMAIN compute.pipelines
           /\ render.descriptors' = render.descriptors
           /\ compute.descriptors' = compute.descriptors
           /\ render.cached' = render.cached
           /\ compute.cached' = compute.cached
           /\ path_mapping' = path_mapping
           /\ file_watcher' = file_watcher ]_vars

\* Two render handles from two files: the reload of one file replaced the
\* object of its handle and left the other handle's object of version 1.
C27_Witness ==
    /\ IsReload(last) /\ last.ok /\ last.processed = 1
    /\ last.module.ver = 2
    /\ DOMAIN path_mapping = Paths
    /\ \E h1, h2 \in {Left(1), Left(2)} :
         /\ Registered(path_mapping, last.path) = {h1}
         /\ h2 # h1 /\ h2 \in LiveHandles
         /\ get_pipeline(h1).module = last.module
         /\ get_pipeline(h2).module.ver = 1
         /\ get_pipeline(h2).module.path # last.path

\* ----------------------------------------------------------------- C28
\* The three stores of one table agree.
StoresAgree(arena) ==
    /\ DOMAIN arena.descriptors = DOMAIN arena.pipelines
    /\ {arena.cached[d] : d \in DOMAIN arena.cached} = DOMAIN arena.pipelines
    /\ \A d1, d2 \in DOMAIN arena.cached :
         arena.cached[d1] = arena.cached[d2] => d1 = d2
    /\ \A d \in DOMAIN arena.cached : arena.descriptors[arena.cached[d]] = d

\* C28: in every reachable state, for the render and for the compute table,
\* the handles with an object, the handles with a descriptor and the
\* handles in the range of the cache are the same set, the cache is
\* injective, and the descriptor stored for cached[d] is d.
C28_StoresAgree ==
    StoresAgree(render) /\ StoresAgree(compute)

\* A compute miss panicked in process() after a render miss had filled a
\* slot: the compute table got no object, descriptor or cache entry.
C28_Witness ==
    /\ panicked
    /\ last.op = "process_compute_pipeline_from_path" /\ ~last.ok
    /\ last.processed = 1
    /\ last.descriptor \notin DOMAIN compute.cached
    /\ Len(render.pipelines) = 1 /\ Len(compute.pipelines) = 0

\* ----------------------------------------------------------------- C29
\* C29: in every reachable state every tagged handle in a handle list has
\* an object and a descriptor in the table of its tag, so the two index
\* expressions of reload_pipeline find what they look up.
C29_RegistryHandlesAreLive ==
    \A p \in DOMAIN path_mapping :
      \A h \in Registered(path_mapping, p) :
        /\ h \in LiveHandles
        /\ h.handle \in DOMAIN TableOf(h).descriptors
        /\ h.handle \in DOMAIN TableOf(h).pipelines

\* A reload of a path with a render and a compute handle panicked: both
\* lookups had succeeded, process() rejected the compute descriptor.
C29_Witness ==
    /\ panicked /\ IsReload(last) /\ last.processed = 2
    /\ last.path \in DOMAIN path_mapping
    /\ path_mapping[last.path] = <<Left(1), Right(1)>>
    /\ process_panics(get_descriptor(Right(1)), last.module)

\* ----------------------------------------------------------------- C30
\* C30: in every reachable state every handle with an object in either
\* table is in the handle list of at least one path, and that path is
\* watched.
C30_EveryHandleIsRegistered ==
    \A h \in LiveHandles :
      \E p \in DOMAIN path_mapping :
        h \in Registered(path_mapping, p) /\ p \in file_watcher

\* Two handles, a render and a compute one, were created from one file and
\* are both in its list; the other file has no entry.
C30_Witness ==
    /\ LiveHandles = {Left(1), Right(1)}
    /\ Cardinality(DOMAIN path_mapping) = 1
    /\ \E p \in DOMAIN path_mapping :
         /\ Registered(path_mapping, p) = LiveHandles
         /\ origin[Left(1)] = p /\ origin[Right(1)] = p
         /\ file_watcher = {p}
    /\ IsCompile(last)

\* C31: while the process runs, the paths handed to the watcher are exactly
\* the keys of the path registry, and every pending change event names a
\* registered path, so handling it never indexes the registry with an
\* unknown path.
C31_WatchedEqualsRegistered ==
    ~panicked =>
        /\ file_watcher = DOMAIN path_mapping
        /\ \A p \in events :
              /\ p \in DOMAIN path_mapping
              /\ ~Arena_reload_pipelines(TheArena, p,
                       [path |-> p, ver |-> files[p].ver,
                        entry_points |-> EntryPoints]).panic

\* Both paths are watched and registered and a change event is pending.
C31_Witness ==
    /\ ~panicked
    /\ file_watcher = Paths
    /\ DOMAIN path_mapping = Paths
    /\ events # {}

\* ------------------------------------------------------------------ C32
\* The arena reached by reload_pipelines(p, m) from the arena a holds, for
\* every handle under p, the object materialized from its descriptor and m.
HoldsModule(a, p, m) ==
    \A i \in 1..Len(a.path_mapping[p]) :
        LET t == a.path_mapping[p][i]
        IN IF t.tag = "Left"
           THEN a.render.pipelines[t.handle]
                  = Materialized("Left", a.render.descriptors[t.handle], m)
           ELSE a.compute.pipelines[t.handle]
                  = Materialized("Right", a.compute.descriptors[t.handle], m)

\* reload_pipelines(p, m) applied to the arena that reload_pipelines(p, m)
\* returned gives that arena again.
IdempotentAt(a, p, m) ==
    LET r1 == Arena_reload_pipelines(a, p, m)
        r2 == Arena_reload_pipelines(r1.arena, p, m)
    IN ~r1.panic => /\ ~r2.panic
                    /\ r2.arena = r1.arena
                    /\ HoldsModule(r1.arena, p, m)

\* C32: reloading a path twice with the same module leaves the arena as the
\* first reload left it: in every state, for every registered path and the
\* module of its current source, a second reload_pipelines returns the arena
\* of the first, where every handle under the path holds the object
\* materialized from its descriptor and that module; and a reload step that
\* follows a completed reload of the same path and module changes no table.
C32_ReloadIdempotent ==
    [][ /\ \A p \in DOMAIN path_mapping' :
              files'[p].valid =>
                  IdempotentAt(TheArena', p, create_shader_module_with_path(p)')
        /\ ( /\ IsReload(last) /\ last.ok
             /\ IsReload(last') /\ last'.path = last.path
             /\ last'.module = last.module )
           => /\ last'.ok
              /\ TheArena' = TheArena
              /\ HoldsModule(TheArena', last'.path, last'.module) ]_vars

\* A completed reload of a path with two handles and an edited source has
\* just run, and running it again would return the same arena.
C32_Witness ==
    /\ IsReload(last) /\ last.ok
    /\ last.module.ver >= 2
    /\ Len(path_mapping[last.path]) >= 2
    /\ \E i \in 1..Len(path_mapping[last.path]) :
          path_mapping[last.path][i].tag = "Right"
    /\ Arena_reload_pipelines(TheArena, last.path, last.module).arena = TheArena
    /\ HoldsModule(TheArena, last.path, last.module)

\* ------------------------------------------------------------------ C33
\* A step of user_event that finds no renderer.
IsEarlyDelivery == ~runner.renderer /\ events' # events /\ events' \subseteq events

\* C33: a changed-path event delivered while the renderer is absent is
\* dropped: the step reloads nothing and changes nothing but the queue it
\* leaves, and resumed neither puts an event back nor reloads; and while
\* the process runs the renderer is present iff the window is present iff
\* the file watcher has been handed over.
C33_EarlyEventDiscarded ==
    /\ [](~panicked => /\ runner.renderer <=> runner.window
                       /\ runner.window <=> ~runner.file_watcher)
    /\ [][ /\ IsEarlyDelivery =>
                 /\ TheArena' = TheArena
                 /\ UNCHANGED <<files, panicked, makeCount, origin, failed, runner>>
                 /\ last'.op = "user_event" /\ last'.path \notin events'
           /\ last'.op = "resumed" =>
                 /\ events' = events
                 /\ TheArena' = TheArena
                 /\ UNCHANGED <<files, makeCount, origin, failed>> ]_vars

\* An event has just been delivered to a runner without renderer: it is no
\* longer queued and the arena is as constructed.
C33_Witness ==
    /\ ~panicked
    /\ last.op = "user_event" /\ ~last.ok
    /\ ~runner.renderer /\ ~runner.window /\ runner.file_watcher
    /\ last.path \notin events
    /\ TheArena = [render |-> NewArena, compute |-> NewArena,
                   path_mapping |-> EmptyMap, file_watcher |-> {}]

\* ------------------------------------------------------------------ C34
\* b is a + 1 modulo 2^64, told from the limbs alone: the low limbs that
\* were full are zero, the first one that was not is one more, the rest are
\* as they were; the all-ones value goes to zero.
IsWrappingSucc(a, b) ==
    IF \A i \in 1..4 : a[i] = 65535
    THEN \A i \in 1..4 : b[i] = 0
    ELSE \E i \in 1..4 :
            /\ \A j \in 1..(i - 1) : a[j] = 65535 /\ b[j] = 0
            /\ a[i] < 65535 /\ b[i] = a[i] + 1
            /\ \A j \in (i + 1)..4 : b[j] = a[j]

\* The recording actions among the actions of a step.
RecordingActions(acts) ==
    SelectSeq(acts, LAMBDA x : x \in {"StartRecording", "FinishRecording"})

\* A step that is one AppState::update call.
IsUpdate == history'.updates = history.updates + 1

\* C34: every AppState::update call adds exactly 1 to frame_count modulo
\* 2^64 and returns at most one recording action; it returns one exactly
\* when F4 was just pressed, and the k-th such press returns StartRecording
\* for odd k and FinishRecording for even k.
C34_RecordingAlternates ==
    [][ IsUpdate =>
          /\ IsWrappingSucc(state.frame_count, state'.frame_count)
          /\ Len(RecordingActions(actions')) <= 1
          /\ history'.presses = history.presses =>
                RecordingActions(actions') = <<>>
          /\ history'.presses = history.presses + 1 =>
                RecordingActions(actions')
                  = << IF history'.presses % 2 = 1 THEN "StartRecording"
                                                    ELSE "FinishRecording" >> ]_vars

\* The second F4 press has just returned FinishRecording, in the update that
\* wrapped frame_count from u64::MAX to 0.
C34_Witness ==
    /\ history.op = "update"
    /\ history.presses = 2
    /\ RecordingActions(actions) = <<"FinishRecording">>
    /\ state.frame_count = u64(0)
    /\ history.updates = 2

\* ------------------------------------------------------------------ C35
\* C35 as claimed: the recording flag of AppState equals the recorder's
\* active state, and no recording action finds the recorder in the wrong
\* state.
C35_Original ==
    /\ state.recording = Recorder_is_active(app.recorder)
    /\ history.misapplied = 0

\* ------------------------------------------------------------------ C36
\* A step that is one new_events call.
IsNewEvents == history'.calls = history.calls + 1

\* C36 as claimed: a new_events call runs at most 15 updates.
C36_Original == history.steps <= 15

\* C36: a new_events call returns after at most 16 updates, with the
\* accumulated time non-negative and below one FIXED_TIME_STEP (a negative
\* value would show as a wrapped one, far above the step), and frame_count
\* advanced by the number of updates.
C36_LoopBounded ==
    [][ IsNewEvents =>
          /\ history'.steps <= 16
          /\ f64_ge(accumulated_time', f64_zero)
          /\ ~f64_ge(accumulated_time', FIXED_TIME_STEP)
          /\ state'.frame_count
               = u64_wrapping_add(state.frame_count, u64(history'.steps)) ]_vars

\* A new_events call has just run 16 updates.
C36_Witness ==
    /\ history.op = "new_events"
    /\ history.steps = 16
    /\ ~f64_ge(accumulated_time, FIXED_TIME_STEP)

\* ------------------------------------------------------------------ C37
\* The sum of the sizes of the first n formats of a list.
RECURSIVE SumSizes(_, _)
SumSizes(formats, n) ==
    IF n = 0 THEN 0 ELSE SumSizes(formats, n - 1) + VertexFormat_size(formats[n])

\* C37: the layout built from the formats f_0..f_{n-1} has one attribute per
\* format, in input order; attribute i has shader_location i and the sum of
\* the sizes of the formats before it as its offset; array_stride is the sum
\* of all the sizes and step_mode is the one given.
C37_ContiguousAttributes ==
    layout.result # None =>
        LET l == layout.result[1]
            f == layout.vertex_formats
        IN /\ Len(l.attributes) = Len(f)
           /\ \A i \in 1..Len(f) :
                /\ l.attributes[i].format = f[i]
                /\ l.attributes[i].shader_location = i - 1
                /\ l.attributes[i].offset = SumSizes(f, i - 1)
           /\ l.array_stride = SumSizes(f, Len(f))
           /\ l.step_mode = layout.step_mode

\* A layout of three formats of three sizes has been built.
C37_Witness ==
    /\ layout.result # None
    /\ layout.vertex_formats = <<"Float32x3", "Unorm8x2", "Float32x4">>
    /\ layout.result[1].attributes[3].offset = 14
    /\ layout.result[1].attributes[3].shader_location = 2
    /\ layout.result[1].array_stride = 30

\* ------------------------------------------------------------------ C38
RECURSIVE SumVertices(_, _)
SumVertices(meshes, n) ==
    IF n = 0 THEN 0 ELSE SumVertices(meshes, n - 1) + meshes[n].vertices

RECURSIVE SumIndices(_, _)
SumIndices(meshes, n) ==
    IF n = 0 THEN 0 ELSE SumIndices(meshes, n - 1) + meshes[n].indices

\* C38: the pool has issued the ids 0, 1, 2, .. in the order of the adds:
\* count() and the length of mesh_info_cpu are the number of adds, the add
\* that has just returned gave the number of adds before it, the MeshInfo of
\* a mesh holds the vertices and indices of all meshes added before it as
\* vertex_offset and base_index, and the ids PLANE_MESH, SPHERE_1_MESH and
\* SPHERE_10_MESH are the three meshes MeshPool::new adds.
C38_ConsecutiveMeshIds ==
    LET n == Len(history.meshes)
    IN /\ MeshPool_count(mesh_pool) = u32(n)
       /\ Len(mesh_pool.mesh_info_cpu) = n
       /\ history.op = "MeshPool::add" => history.id = u32(n - 1)
       /\ \A i \in 1..n :
            /\ mesh_pool.mesh_info_cpu[i].vertex_offset
                 = u32(SumVertices(history.meshes, i - 1))
            /\ mesh_pool.mesh_info_cpu[i].base_index
                 = u32(SumIndices(history.meshes, i - 1))
            /\ mesh_pool.mesh_info_cpu[i].index_count = u32(history.meshes[i].indices)
       /\ n >= 3
       /\ history.meshes[PLANE_MESH + 1] = BuiltinMeshes[1]
       /\ history.meshes[SPHERE_1_MESH + 1] = BuiltinMeshes[2]
       /\ history.meshes[SPHERE_10_MESH + 1] = BuiltinMeshes[3]
       /\ history.adds = 0 => n = 3

\* The second mesh of a scene has just been added: it is mesh 4 and starts
\* after the three built-in meshes and the cube.
C38_Witness ==
    /\ history.op = "MeshPool::add"
    /\ Len(history.meshes) = 5
    /\ history.meshes[4].name = "cube"
    /\ history.meshes[5].name = "triangle"
    /\ history.id = u32(4)
    /\ mesh_pool.mesh_info_cpu[5].vertex_offset = u32(4 + 6 + 121 + 24)
    /\ mesh_pool.mesh_info_cpu[5].base_index = u32(6 + 12 + 600 + 36)

\* ------------------------------------------------------------------ C39
\* A step that is one MaterialPool::add call.
IsMaterialAdd ==
    history'.adds = history.adds + 1 /\ history'.op = "MaterialPool::add"

\* C39: MaterialPool::add stores the material at the end of the buffer and
\* returns its index, the length of the buffer before the call (2 for the
\* first add after new); no step shortens the buffer or changes a stored
\* material, so an id is never given twice; and LIGHT_MATERIAL indexes a
\* stored material in every state.
C39_MaterialIdIsIndex ==
    /\ [](LIGHT_MATERIAL < Len(material_pool.buffer))
    /\ [][ /\ IsMaterialAdd =>
                /\ history'.id = u32(Len(material_pool.buffer))
                /\ Len(material_pool'.buffer) = Len(material_pool.buffer) + 1
                /\ Len(material_pool.buffer) = 2 + history.adds
                     - (Len(history.meshes) - 3)
           /\ SubSeq(material_pool'.buffer, 1, Len(material_pool.buffer))
                = material_pool.buffer ]_vars

\* The second material of a scene has just been stored with id 3.
C39_Witness ==
    /\ history.op = "MaterialPool::add"
    /\ history.id = u32(3)
    /\ Len(material_pool.buffer) = 4
    /\ material_pool.buffer[4] = "metal"
    /\ material_pool.buffer[LIGHT_MATERIAL + 1] = "default"

TypeOK ==
    /\ \A p \in DOMAIN path_mapping : p \in Paths
    /\ file_watcher \subseteq Paths
    /\ events \subseteq Paths
    /\ runner.pc \in {"idle", "user_event", "redraw"}

====
